---- MODULE Spec2Model ----
(***************************************************************************)
(* FIFO cost-basis ledger of Dinonard/fifo-accounting.                     *)
(*                                                                         *)
(* The ledger (src/src/fifo.rs) is a fold of add_transaction over the      *)
(* transaction list.  Three specifications share the definitions:          *)
(*   Spec      Ledger::new, one step per call of add_transaction;          *)
(*   MainSpec  the command line (src/src/main.rs): parse, validate, check  *)
(*             the prices, construct the ledger, report, write the CSV;    *)
(*   ReadSpec  a constructed ledger and the calls of its reads in_order,   *)
(*             yearly_income_loss_report and csv_line_iter;                *)
(*   ValidationSpec  a call of context_validation on any list;             *)
(*   ParserSpec  a call of TransactionsProvider::get on any parser.        *)
(*                                                                         *)
(* Decimal values (rust_decimal, 28 fractional digits) are fixed-point     *)
(* integers with DecimalScale fractional digits: the value v stands for    *)
(* v / 10^DecimalScale.  Addition and subtraction are exact, products and  *)
(* quotients are rounded to the last digit kept.                           *)
(***************************************************************************)
EXTENDS FiniteSets, Integers, Sequences, TLC

VARIABLES
    transactions,   \* Ledger.transactions: the transactions processed so far
    ledger,         \* Ledger.ledger: HashMap<AssetType, Vec<InventoryItem>>
    status,         \* "ok", or "panicked" once an expect() of Ledger::new failed
    panic,          \* the expect() that failed ("" while status = "ok")
    failed,         \* the transaction whose processing panicked (None otherwise)
    log,            \* log::error! records of process_selling_or_swap (shortfalls)
    origin,         \* history: for every item, the index of the lot it consumed (0: none)
    before,         \* history: the ledger as it was before the last transaction
    cell,           \* Ledger.in_order: the OnceCell (None until the first in_order())
    entries,        \* TransactionsProvider.iter: what the parser yields, entry by entry
    given,          \* main: the transactions tx_provider.get() returned
    pc,             \* main: the statement the program is at
    returned,       \* what the last call of each function returned, and the Err main returned
    calls           \* history: how many times each read was called

vars == <<transactions, ledger, status, panic, failed, log, origin, before,
         cell, entries, given, pc, returned, calls>>

----------------------------------------------------------------------------
(* Bounds *)

MaxTx == 3
MaxAmount == 2
MaxDate == 3
DaysPerYear == 2
DecimalScale == 3

----------------------------------------------------------------------------
(* Decimal *)

RECURSIVE Pow10(_)
Pow10(n) == IF n = 0 THEN 1 ELSE 10 * Pow10(n - 1)

One == Pow10(DecimalScale)

Abs(n) == IF n < 0 THEN -n ELSE n

Sgn(n) == IF n < 0 THEN -1 ELSE 1

\* n / d rounded to the nearest integer, ties away from zero (d # 0)
RoundDiv(n, d) == Sgn(n) * Sgn(d) * ((2 * Abs(n) + Abs(d)) \div (2 * Abs(d)))

DecMul(a, b) == RoundDiv(a * b, One)

DecDiv(a, b) == RoundDiv(a * One, b)

None == <<>>

Some(v) == <<v>>

Unwrap(o) == o[1]

----------------------------------------------------------------------------
(* Domain types: fifo-types/src/core.rs *)

Assets == {"EUR", "X", "Y"}

BuyingTypes == {"Buying", "Invoice"}

SellingTypes == {"Selling", "Fees", "Nft", "Swap", "Lock"}

InterestTypes == {"Interest", "Airdrop"}

TransferTypes == {"Transfer", "Bridge"}

TransactionType == BuyingTypes \cup SellingTypes \cup InterestTypes \cup TransferTypes

is_fiat(asset) == asset \in {"USD", "EUR"}

EUR == "EUR"

Dates == 1 .. MaxDate

Year(date) == (date - 1) \div DaysPerYear + 1

Amounts == {a * One : a \in 0 .. MaxAmount}

new_transaction(ordinal, date, tx_type, input_type, input_amount, output_type, output_amount) ==
    [ordinal |-> ordinal, date |-> date, tx_type |-> tx_type,
     input_type |-> input_type, input_amount |-> input_amount,
     output_type |-> output_type, output_amount |-> output_amount]

tx_cost_basis_of_nothing(tx) ==
    IF tx.output_amount = 0 THEN Some(0)
    ELSE Some(DecDiv(tx.input_amount, tx.output_amount))

tx_cost_basis_inverted(tx) ==
    IF tx.output_amount = 0 THEN None
    ELSE IF tx.input_amount = 0 THEN Some(0)
    ELSE Some(DecDiv(tx.output_amount, tx.input_amount))

tx_cost_basis(tx) ==
    IF tx.output_amount = 0 THEN None
    ELSE Some(DecDiv(tx.input_amount, tx.output_amount))

tx_sale_price(tx) ==
    IF tx.input_amount = 0 \/ ~is_fiat(tx.output_type) THEN None
    ELSE Some(DecDiv(tx.output_amount, tx.input_amount))

----------------------------------------------------------------------------
(* Price provider: src/src/price_provider.rs *)

\* BasicPriceProvider.prices: the price file has no entry for Y on day 2,
\* and its price of Y on day 3 has half a cent: 4.005
prices ==
    [k \in {<<"X", d>> : d \in Dates} \cup {<<"Y", d>> : d \in Dates \ {2}} |->
        IF k[1] = "X" THEN 2 * One
        ELSE One + k[2] * One + (IF k[2] = 3 THEN 5 * (One \div 1000) ELSE 0)]

get_price(token, date) ==
    IF <<token, date>> \in DOMAIN prices THEN Some(prices[<<token, date>>]) ELSE None

contains_price(token, date) == get_price(token, date) # None

tx_is_zero_cost_interest_only(tx) == tx.tx_type = "Interest"

\* core.rs 60-62 and 236-238: Transaction::is_zero_cost
tx_is_zero_cost(tx) == tx.tx_type \in {"Interest", "Airdrop"}

missing_prices_first_only(txs) ==
    LET missing == SelectSeq(txs, LAMBDA tx :
                        tx_is_zero_cost(tx) /\ ~contains_price(tx.output_type, tx.date))
    IN IF missing = <<>> THEN <<>> ELSE <<<<missing[1].output_type, missing[1].date>>>>

\* price_provider.rs 67-80: one (asset, date) pair per zero-cost transaction without a price
missing_prices(txs) ==
    LET missing == SelectSeq(txs, LAMBDA tx :
                        tx_is_zero_cost(tx) /\ ~contains_price(tx.output_type, tx.date))
    IN [k \in 1 .. Len(missing) |-> <<missing[k].output_type, missing[k].date>>]

----------------------------------------------------------------------------
(* Ledger: src/src/fifo.rs *)

InventoryItem(ordinal, date, acquired, in_type, in_amount, out_type, out_amount, remaining, cb, sp, parent, zc) ==
    [ordinal |-> ordinal, date |-> date, acquisition_date |-> acquired,
     input_type |-> in_type, input_amount |-> in_amount,
     output_type |-> out_type, output_amount |-> out_amount,
     remaining_amount |-> remaining, cost_basis |-> cb,
     sale_price |-> sp, parent_tx |-> parent, is_zero_cost |-> zc]

EmptyLedger == [a \in {} |-> <<>>]

entry_or_default_fresh(map, key) == <<>>

\* HashMap::entry(key).or_default()
entry_or_default(map, key) == IF key \in DOMAIN map THEN map[key] ELSE <<>>

insert(map, key, value) ==
    [a \in DOMAIN map \cup {key} |-> IF a = key THEN value ELSE map[a]]

\* What one call of add_transaction leaves behind
Outcome(l, o, shortfall, p) == [ledger |-> l, origin |-> o, shortfall |-> shortfall, panic |-> p]

process_buying(l, o, tx) ==
    IF tx_cost_basis(tx) = None
    THEN Outcome(l, o, None, "Must be non-zero for buying transaction.")
    ELSE LET item == InventoryItem(tx.ordinal, tx.date, tx.date, tx.input_type, tx.input_amount,
                                   tx.output_type, tx.output_amount, tx.output_amount,
                                   Unwrap(tx_cost_basis(tx)), None, None, FALSE)
         IN Outcome(insert(l, tx.output_type, Append(entry_or_default(l, tx.output_type), item)),
                    insert(o, tx.output_type, Append(entry_or_default(o, tx.output_type), 0)),
                    None, "")

process_interest_keeping_input(l, o, tx) ==
    IF get_price(tx.output_type, tx.date) = None
    THEN Outcome(l, o, None, "Must exist")
    ELSE LET item == InventoryItem(tx.ordinal, tx.date, tx.date, tx.input_type, tx.input_amount,
                                   tx.output_type, tx.output_amount, tx.output_amount,
                                   Unwrap(get_price(tx.output_type, tx.date)), None, None, TRUE)
         IN Outcome(insert(l, tx.output_type, Append(entry_or_default(l, tx.output_type), item)),
                    insert(o, tx.output_type, Append(entry_or_default(o, tx.output_type), 0)),
                    None, "")

process_interest(l, o, tx) ==
    IF get_price(tx.output_type, tx.date) = None
    THEN Outcome(l, o, None, "Must exist")
    ELSE LET item == InventoryItem(tx.ordinal, tx.date, tx.date, EUR, 0,
                                   tx.output_type, tx.output_amount, tx.output_amount,
                                   Unwrap(get_price(tx.output_type, tx.date)), None, None, TRUE)
         IN Outcome(insert(l, tx.output_type, Append(entry_or_default(l, tx.output_type), item)),
                    insert(o, tx.output_type, Append(entry_or_default(o, tx.output_type), 0)),
                    None, "")

consumed_amount_whole_lot(item_remaining, remaining_input_amount) == item_remaining

\* fifo.rs 490-504: how much of a lot one pass of the loop consumes
consumed_amount(item_remaining, remaining_input_amount) ==
    IF item_remaining > remaining_input_amount THEN remaining_input_amount ELSE item_remaining

rest_of_item_skipping(item_remaining, remaining_input_amount) ==
    IF item_remaining >= remaining_input_amount
    THEN item_remaining - remaining_input_amount
    ELSE item_remaining

rest_of_item_emptied(item_remaining, remaining_input_amount) == 0

\* fifo.rs 490-504: what the pass leaves in the lot (item.remaining_amount)
rest_of_item(item_remaining, remaining_input_amount) ==
    IF item_remaining > remaining_input_amount
    THEN item_remaining - remaining_input_amount
    ELSE 0

rest_of_input_dropped(item_remaining, remaining_input_amount) == 0

\* fifo.rs 490-504: what the pass leaves to consume (remaining_input_amount)
rest_of_input(item_remaining, remaining_input_amount) ==
    IF item_remaining > remaining_input_amount
    THEN 0
    ELSE remaining_input_amount - item_remaining

\* fifo.rs 507-514: the share of the output the fragment gets (new_amount)
new_output_amount(tx, consumed, remaining_input_amount, remaining_output_amount) ==
    IF remaining_input_amount = 0
    THEN remaining_output_amount
    ELSE DecDiv(DecMul(tx.output_amount, consumed), tx.input_amount)

rest_of_output_kept(remaining_input_amount, remaining_output_amount, new_amount) ==
    remaining_output_amount

\* fifo.rs 507-514: what the pass leaves of the output (remaining_output_amount)
rest_of_output(remaining_input_amount, remaining_output_amount, new_amount) ==
    IF remaining_input_amount = 0
    THEN remaining_output_amount
    ELSE remaining_output_amount - new_amount

new_cost_basis_unchained(tx, item) ==
    IF is_fiat(tx.output_type) THEN item.cost_basis
    ELSE Unwrap(tx_cost_basis(tx))

new_cost_basis_always_chained(tx, item) ==
    IF tx_cost_basis(tx) = None THEN item.cost_basis
    ELSE DecMul(Unwrap(tx_cost_basis(tx)), item.cost_basis)

\* fifo.rs 517-524: the chaining rule
new_cost_basis(tx, item) ==
    IF is_fiat(tx.output_type) THEN item.cost_basis
    ELSE DecMul(Unwrap(tx_cost_basis(tx)), item.cost_basis)

new_item_zero_cost_of_tx(tx, item, consumed, new_amount) ==
    InventoryItem(tx.ordinal, tx.date, item.date, tx.input_type, consumed,
                  tx.output_type, new_amount, new_amount, new_cost_basis(tx, item),
                  tx_sale_price(tx), Some(tx.ordinal), tx_is_zero_cost(tx))

\* fifo.rs 526-540: the fragment a consumption creates
new_item(tx, item, consumed, new_amount) ==
    InventoryItem(tx.ordinal, tx.date, item.date, tx.input_type, consumed,
                  tx.output_type, new_amount, new_amount, new_cost_basis(tx, item),
                  tx_sale_price(tx), Some(tx.ordinal), item.is_zero_cost)

\* fifo.rs 482-543: the loop over the input asset's queue, from position i on.
\* st: inventory (the queue, mutated in place), remaining_input_amount,
\* remaining_output_amount, new_items, lots (the positions consumed), panic.
RECURSIVE consume_loop(_, _, _)
consume_loop(tx, i, st) ==
    IF i > Len(st.inventory) THEN st
    ELSE LET item == st.inventory[i] IN
        IF ~(item.remaining_amount > 0) THEN consume_loop(tx, i + 1, st)
        ELSE IF st.remaining_input_amount = 0 THEN st
        ELSE LET consumed == consumed_amount(item.remaining_amount, st.remaining_input_amount)
                 rest_input == rest_of_input(item.remaining_amount, st.remaining_input_amount)
                 rest_item == rest_of_item(item.remaining_amount, st.remaining_input_amount)
                 new_amount == new_output_amount(tx, consumed, rest_input,
                                                 st.remaining_output_amount)
                 rest_output == rest_of_output(rest_input, st.remaining_output_amount, new_amount)
             IN IF ~is_fiat(tx.output_type) /\ tx_cost_basis(tx) = None
                THEN [st EXCEPT !.panic = "Cannot fail, improve later"]
                ELSE consume_loop(tx, i + 1,
                        [inventory |-> [st.inventory EXCEPT ![i].remaining_amount = rest_item],
                         remaining_input_amount |-> rest_input,
                         remaining_output_amount |-> rest_output,
                         new_items |-> Append(st.new_items, new_item(tx, item, consumed, new_amount)),
                         lots |-> Append(st.lots, i),
                         panic |-> ""])

get_mut_or_default(map, key) == Some(entry_or_default(map, key))

\* fifo.rs 471-474: HashMap::get_mut(key), None when the map has no such key
get_mut(map, key) == IF key \in DOMAIN map THEN Some(map[key]) ELSE None

process_selling_or_swap(l, o, tx) ==
    IF get_mut(l, tx.input_type) = None
    THEN Outcome(l, o, None, "Must exist since data was validated.")
    ELSE LET st == consume_loop(tx, 1,
                       [inventory |-> Unwrap(get_mut(l, tx.input_type)),
                        remaining_input_amount |-> tx.input_amount,
                        remaining_output_amount |-> tx.output_amount,
                        new_items |-> <<>>, lots |-> <<>>, panic |-> ""])
             consumed_ledger == insert(l, tx.input_type, st.inventory)
         IN IF st.panic # "" THEN Outcome(l, o, None, st.panic)
            ELSE Outcome(
                    insert(consumed_ledger, tx.output_type,
                           entry_or_default(consumed_ledger, tx.output_type) \o st.new_items),
                    insert(o, tx.output_type, entry_or_default(o, tx.output_type) \o st.lots),
                    IF st.remaining_input_amount # 0 THEN Some(st.remaining_input_amount) ELSE None,
                    "")

dummy_tx_of_whole_input(tx) ==
    new_transaction(tx.ordinal, tx.date, tx.tx_type, tx.input_type, tx.input_amount, EUR, 0)

\* fifo.rs 594-603: the disposal a Transfer or Bridge within one asset stands for
dummy_tx(tx) ==
    new_transaction(tx.ordinal, tx.date, tx.tx_type, tx.input_type,
                    tx.input_amount - tx.output_amount, EUR, 0)

process_transfer_unchanged(l, o, tx) == process_selling_or_swap(l, o, tx)

\* fifo.rs 589-609
process_transfer(l, o, tx) ==
    IF tx.input_type = tx.output_type
    THEN process_selling_or_swap(l, o, dummy_tx(tx))
    ELSE process_selling_or_swap(l, o, tx)

add_transaction(l, o, tx) ==
    CASE tx.tx_type \in BuyingTypes -> process_buying(l, o, tx)
      [] tx.tx_type \in SellingTypes -> process_selling_or_swap(l, o, tx)
      [] tx.tx_type \in InterestTypes -> process_interest(l, o, tx)
      [] tx.tx_type \in TransferTypes -> process_transfer(l, o, tx)

----------------------------------------------------------------------------
(* Reads: fifo.rs 93-142 and 330-393 *)

is_first_in_sequence(item) == item.parent_tx = None

zero_cost_income(item) ==
    IF item.is_zero_cost /\ is_first_in_sequence(item)
    THEN Some(DecMul(item.output_amount, item.cost_basis))
    ELSE None

income_of_output(item) ==
    CASE item.sale_price # None /\ zero_cost_income(item) = None ->
            Some(DecMul(item.output_amount, Unwrap(item.sale_price)))
      [] item.sale_price = None /\ zero_cost_income(item) # None -> zero_cost_income(item)
      [] OTHER -> None

income(item) ==
    CASE item.sale_price # None /\ zero_cost_income(item) = None ->
            Some(DecMul(item.input_amount, Unwrap(item.sale_price)))
      [] item.sale_price = None /\ zero_cost_income(item) # None -> zero_cost_income(item)
      [] OTHER -> None

expense_of_any_item(item) == Some(DecMul(item.input_amount, item.cost_basis))

expense(item) ==
    IF item.sale_price # None THEN Some(DecMul(item.input_amount, item.cost_basis)) ELSE None

profit(item) ==
    IF zero_cost_income(item) # None THEN zero_cost_income(item)
    ELSE IF income(item) # None /\ expense(item) # None
         THEN Some(Unwrap(income(item)) - Unwrap(expense(item)))
         ELSE None

\* The orders in which HashMap::values() may visit the queues
RECURSIVE KeyOrders(_)
KeyOrders(keys) ==
    IF keys = {} THEN {<<>>}
    ELSE UNION {{<<k>> \o rest : rest \in KeyOrders(keys \ {k})} : k \in keys}

RECURSIVE flat_map(_, _)
flat_map(l, order) ==
    IF order = <<>> THEN <<>> ELSE l[Head(order)] \o flat_map(l, Tail(order))

\* Vec::sort_by_key(|item| item.ordinal): a stable sort
RECURSIVE sort_insert(_, _)
sort_insert(sorted, item) ==
    IF sorted = <<>> THEN <<item>>
    ELSE IF sorted[Len(sorted)].ordinal <= item.ordinal THEN Append(sorted, item)
    ELSE Append(sort_insert(SubSeq(sorted, 1, Len(sorted) - 1), item), sorted[Len(sorted)])

RECURSIVE sort_by_ordinal(_)
sort_by_ordinal(items) ==
    IF items = <<>> THEN <<>>
    ELSE sort_insert(sort_by_ordinal(SubSeq(items, 1, Len(items) - 1)), items[Len(items)])

in_order_unsorted(l, order) == flat_map(l, order)

in_order(l, order) == sort_by_ordinal(flat_map(l, order))

OptAdd(total, o) == IF o = None THEN total ELSE total + Unwrap(o)

report_add_profit_once(report, item) ==
    [year |-> report.year,
     income |-> OptAdd(OptAdd(report.income, income(item)), zero_cost_income(item)),
     expense |-> OptAdd(report.expense, expense(item)),
     profit |-> OptAdd(report.profit, profit(item))]

\* fifo.rs 355-386: one pass of the loop adds an item to its year's YearlyReport
report_add(report, item) ==
    [year |-> report.year,
     income |-> OptAdd(OptAdd(report.income, income(item)), zero_cost_income(item)),
     expense |-> OptAdd(report.expense, expense(item)),
     profit |-> OptAdd(OptAdd(report.profit, profit(item)), zero_cost_income(item))]

\* fifo.rs 355-386: total_report, the HashMap<Year, YearlyReport> the loop builds
RECURSIVE total_report(_)
total_report(items) ==
    IF items = <<>> THEN [y \in {} |-> 0]
    ELSE LET rest == total_report(SubSeq(items, 1, Len(items) - 1))
             item == items[Len(items)]
             year == Year(item.date)
             report == IF year \in DOMAIN rest THEN rest[year]
                       ELSE [year |-> year, income |-> 0, expense |-> 0, profit |-> 0]
         IN [y \in DOMAIN rest \cup {year} |->
                IF y = year THEN report_add(report, item) ELSE rest[y]]

\* The YearlyReport of every year, for the ledger l
yearly_totals(l) == total_report(in_order(l, CHOOSE order \in KeyOrders(DOMAIN l) : TRUE))

----------------------------------------------------------------------------
(* The run: Ledger::new folds add_transaction over the input, fifo.rs 316-328, 408-412 *)

Reads == {"in_order", "yearly_income_loss_report", "csv_line_iter"}

Calls == {"context_validation", "get"}

NothingReturned == [q \in Reads \cup Calls \cup {"main"} |-> None]

NeverCalled == [q \in Reads |-> 0]

\* Ledger::new before process(): no transaction, an empty map, an empty cell
NewLedger ==
    /\ transactions = <<>>
    /\ ledger = EmptyLedger
    /\ status = "ok"
    /\ panic = ""
    /\ failed = None
    /\ log = <<>>
    /\ origin = EmptyLedger
    /\ before = EmptyLedger
    /\ cell = None
    /\ returned = NothingReturned
    /\ calls = NeverCalled

Init ==
    /\ NewLedger
    /\ entries = <<>>
    /\ given = <<>>
    /\ pc = "Ledger::new"

LastDate == IF transactions = <<>> THEN 1 ELSE transactions[Len(transactions)].date

Crypto == {a \in Assets : ~is_fiat(a)}

\* The inputs: <<tx_type, input_type, input_amount, output_type, output_amount>>
Differing(inputs) == {s \in inputs : s[2] # s[4]}

\* An Invoice may be paid in crypto: its input is then X
BuyingInputs ==
    {<<t, EUR, iq, oa, oq>> :
        t \in BuyingTypes, iq \in Amounts \ {0}, oa \in Crypto, oq \in Amounts}
    \cup {<<"Invoice", "X", One, "Y", One>>}

\* The input of an Interest or Airdrop is mostly empty, but need not be
InterestInputs ==
    {<<t, EUR, 0, oa, oq>> : t \in InterestTypes, oa \in Crypto, oq \in Amounts \ {0}}
    \cup {<<"Interest", EUR, One, "Y", One>>, <<"Airdrop", "X", One, "Y", One>>}

SellingInputs ==
    {<<"Selling", ia, iq, EUR, oq>> : ia \in Crypto, iq \in Amounts, oq \in Amounts \ {0}}
    \cup {<<"Fees", ia, iq, EUR, 0>> : ia \in Crypto, iq \in Amounts}
    \cup Differing({<<"Swap", ia, iq, oa, oq>> :
                    ia \in Crypto, iq \in Amounts \ {0}, oa \in Crypto, oq \in Amounts})
    \cup {<<"Lock", ia, iq, ia, iq>> : ia \in Crypto, iq \in Amounts \ {0}}
    \cup {<<"Nft", EUR, iq, oa, One>> : iq \in Amounts \ {0}, oa \in Crypto}
    \cup {<<"Selling", "X", 3 * One, EUR, One>>, <<"Swap", "X", 0, "Y", 0>>}

TransferInputs ==
    {<<"Transfer", ia, iq, ia, oq>> : ia \in Crypto, iq \in Amounts \ {0}, oq \in Amounts}
    \cup Differing({<<"Bridge", ia, iq, oa, oq>> :
                    ia \in Crypto, iq \in Amounts \ {0}, oa \in Crypto, oq \in Amounts \ {0}})

\* The next transaction of the input: ordinals are 1, 2, ... and dates do not decrease
NextTransactions(inputs) ==
    {new_transaction(Len(transactions) + 1, d, s[1], s[2], s[3], s[4], s[5]) :
        d \in {x \in Dates : x >= LastDate /\ x <= LastDate + 1}, s \in inputs}

Running == status = "ok" /\ Len(transactions) < MaxTx

Process(tx) ==
    /\ LET r == add_transaction(ledger, origin, tx) IN
        IF r.panic # ""
        THEN /\ status' = "panicked"
             /\ panic' = r.panic
             /\ failed' = Some(tx)
             /\ transactions' = <<>>
             /\ ledger' = EmptyLedger
             /\ origin' = EmptyLedger
             /\ before' = EmptyLedger
             /\ log' = <<>>
        ELSE /\ transactions' = Append(transactions, tx)
             /\ ledger' = r.ledger
             /\ origin' = r.origin
             /\ before' = ledger
             /\ log' = IF r.shortfall = None THEN log
                       ELSE Append(log, [ordinal |-> tx.ordinal, shortfall |-> Unwrap(r.shortfall)])
             /\ UNCHANGED <<status, panic, failed>>
    /\ UNCHANGED <<cell, entries, given, pc, returned, calls>>

Buying == Running /\ \E tx \in NextTransactions(BuyingInputs) : Process(tx)

SellingOrSwap == Running /\ \E tx \in NextTransactions(SellingInputs) : Process(tx)

Interest == Running /\ \E tx \in NextTransactions(InterestInputs) : Process(tx)

Transfer == Running /\ \E tx \in NextTransactions(TransferInputs) : Process(tx)

Next == Buying \/ SellingOrSwap \/ Interest \/ Transfer

Spec == Init /\ [][Next]_vars

----------------------------------------------------------------------------
(* Context validation: src/src/validation.rs *)

is_crypto(asset) == ~is_fiat(asset) /\ asset # ""

validate_interest_transaction(tx) ==
    CASE ~is_fiat(tx.input_type) -> "Interest transaction should have fiat (EUR) input"
      [] tx.input_amount = 0 -> "Interest transaction should have non-zero fiat input amount"
      [] is_fiat(tx.output_type) -> "Interest transaction does not support fiat output"
      [] tx.output_amount = 0 -> "Interest transaction should have non-zero output amount"
      [] OTHER -> ""

validate_invoice_transaction(tx) ==
    CASE ~is_fiat(tx.input_type) -> "Invoice transaction should have fiat (EUR) input"
      [] tx.input_amount = 0 -> "Invoice transaction should have non-zero fiat input amount"
      [] is_fiat(tx.output_type) -> "Invoice transaction does not support fiat output"
      [] tx.output_amount = 0 -> "Invoice transaction should have non-zero output amount"
      [] OTHER -> ""

validate_swap_transaction(tx) ==
    CASE is_fiat(tx.input_type) -> "Swap transaction should not have fiat input"
      [] tx.input_amount = 0 -> "Swap transaction should have non-zero input amount"
      [] is_fiat(tx.output_type) -> "Swap transaction should not have fiat output"
      [] tx.output_amount = 0 -> "Swap transaction should have non-zero output amount"
      [] tx.input_type = tx.output_type ->
            "Swap transaction should have different input and output tokens"
      [] OTHER -> ""

validate_buy_transaction(tx) ==
    CASE ~is_fiat(tx.input_type) -> "Buy transaction should have fiat (EUR) input"
      [] tx.input_amount = 0 -> "Buy transaction should have non-zero fiat input amount"
      [] is_fiat(tx.output_type) -> "Buy transaction should not have fiat output"
      [] tx.output_amount = 0 -> "Buy transaction should have non-zero output amount"
      [] OTHER -> ""

validate_selling_transaction(tx) ==
    CASE is_fiat(tx.input_type) -> "Sell transaction should not have fiat input"
      [] tx.input_amount = 0 -> "Sell transaction should have non-zero input amount"
      [] ~is_fiat(tx.output_type) -> "Sell transaction should have fiat (EUR) output"
      [] OTHER -> ""

\* validation.rs 136-153: the match on the transaction type
validate_by_type(tx) ==
    CASE tx.tx_type = "Interest" -> validate_interest_transaction(tx)
      [] tx.tx_type = "Invoice" -> validate_invoice_transaction(tx)
      [] tx.tx_type = "Swap" -> validate_swap_transaction(tx)
      [] tx.tx_type = "Buying" -> validate_buy_transaction(tx)
      [] tx.tx_type = "Selling" -> validate_selling_transaction(tx)
      [] OTHER -> ""

\* validation.rs 76-111: the input amount leaves the balance of a crypto asset
subtract_input(state, tx) ==
    IF ~is_crypto(tx.input_type) THEN [state |-> state, err |-> ""]
    ELSE IF tx.input_type \notin DOMAIN state
         THEN [state |-> state, err |-> "Token not found in state"]
         ELSE IF state[tx.input_type] - tx.input_amount < 0
              THEN [state |-> state, err |-> "Negative balance"]
              ELSE [state |-> [state EXCEPT ![tx.input_type] = @ - tx.input_amount], err |-> ""]

\* validation.rs 113-134: the output amount joins the balance of a crypto asset
add_output(state, tx) ==
    IF ~is_crypto(tx.output_type) THEN state
    ELSE insert(state, tx.output_type,
                (IF tx.output_type \in DOMAIN state THEN state[tx.output_type] ELSE 0)
                    + tx.output_amount)

\* validation.rs 41-154: one pass of the loop; v: previous_ordinal, previous_date, state, err
validate_transaction(v, tx) ==
    IF tx.ordinal # v.previous_ordinal + 1 THEN [v EXCEPT !.err = "Ordinal number mismatch"]
    ELSE IF tx.date < v.previous_date THEN [v EXCEPT !.err = "Date mismatch"]
    ELSE IF tx.input_amount = 0 THEN [v EXCEPT !.err = "Input amount is zero"]
    ELSE LET taken == subtract_input(v.state, tx) IN
        IF taken.err # "" THEN [v EXCEPT !.err = taken.err]
        ELSE [previous_ordinal |-> tx.ordinal, previous_date |-> tx.date,
              state |-> add_output(taken.state, tx), err |-> validate_by_type(tx)]

RECURSIVE validation_loop(_, _)
validation_loop(v, txs) ==
    IF txs = <<>> \/ v.err # "" THEN v
    ELSE validation_loop(validate_transaction(v, Head(txs)), Tail(txs))

context_validation_unnumbered(txs) ==
    validation_loop([previous_ordinal |-> IF txs = <<>> THEN 0 ELSE Head(txs).ordinal - 1,
                     previous_date |-> 0, state |-> [a \in {} |-> 0], err |-> ""], txs)

\* Ok(state) is err = "", Err(message) is err = message
context_validation(txs) ==
    validation_loop([previous_ordinal |-> 0, previous_date |-> 0,
                     state |-> [a \in {} |-> 0], err |-> ""], txs)

----------------------------------------------------------------------------
(* Reads of a constructed ledger: fifo.rs 144-250 and 330-403 *)

get_or_init_extending(c, value) == IF c = None THEN Some(value) ELSE Some(Unwrap(c) \o value)

\* OnceCell::get_or_init: the value is computed and stored by the first call only
get_or_init(c, value) == IF c = None THEN Some(value) ELSE c

\* Display of a Decimal with {:.2}: the value in hundredths
format_2dp(v) == RoundDiv(v * 100, One)

\* fifo.rs 291-299: Display of a YearlyReport
format_report(report) ==
    [year |-> report.year, income |-> format_2dp(report.income),
     expense |-> format_2dp(report.expense), profit |-> format_2dp(report.profit)]

RECURSIVE sort_insert_by_year(_, _)
sort_insert_by_year(sorted, report) ==
    IF sorted = <<>> THEN <<report>>
    ELSE IF sorted[Len(sorted)].year <= report.year THEN Append(sorted, report)
    ELSE Append(sort_insert_by_year(SubSeq(sorted, 1, Len(sorted) - 1), report),
                sorted[Len(sorted)])

sorted_by_key_skipped(reports) == reports

\* Itertools::sorted_by_key(|(year, _)| *year)
RECURSIVE sorted_by_key(_)
sorted_by_key(reports) ==
    IF reports = <<>> THEN <<>>
    ELSE sort_insert_by_year(sorted_by_key(SubSeq(reports, 1, Len(reports) - 1)),
                             reports[Len(reports)])

\* fifo.rs 354-393, on the items in_order() returned; year_order is the order
\* in which HashMap::into_iter() yields the entries of total_report
yearly_income_loss_report(items, year_order) ==
    LET totals == total_report(items)
        sorted == sorted_by_key([k \in 1 .. Len(year_order) |-> totals[year_order[k]]])
    IN [k \in 1 .. Len(sorted) |-> format_report(sorted[k])]

get_tx_by_ordinal(txs, item) ==
    IF item.ordinal + 1 \in 1 .. Len(txs) THEN Some(txs[item.ordinal + 1]) ELSE None

\* fifo.rs 399-403: transactions.get(ordinal - 1), before the expect()
get_tx(txs, item) == IF item.ordinal \in 1 .. Len(txs) THEN Some(txs[item.ordinal]) ELSE None

\* fifo.rs 147-250: the line of an item; the asset types and the action are the transaction's
output_line(item, tx) ==
    [ordinal |-> item.ordinal, transaction_date |-> item.date,
     acquisition_date |-> item.acquisition_date, action |-> tx.tx_type,
     input_type |-> tx.input_type, input_amount |-> item.input_amount,
     output_type |-> tx.output_type, output_amount |-> item.output_amount,
     income_amount |-> income(item), expense_amount |-> expense(item), profit |-> profit(item)]

\* The expect() of get_tx and the assert_eq! of output_line, for one item
line_panic(item, txs) ==
    IF get_tx(txs, item) = None THEN "Must exist since data was validated."
    ELSE IF Unwrap(get_tx(txs, item)).ordinal # item.ordinal THEN "Ordinal mismatch"
    ELSE ""

\* fifo.rs 346-351 on the items in_order() returned, collected: the lines,
\* or the panic of the first item that has one
csv_line_iter(items, txs) ==
    LET bad == {k \in 1 .. Len(items) : line_panic(items[k], txs) # ""}
    IN IF bad # {}
       THEN [panic |-> line_panic(items[CHOOSE k \in bad : \A j \in bad : k <= j], txs),
             lines |-> <<>>]
       ELSE [panic |-> "",
             lines |-> [k \in 1 .. Len(items) |->
                            output_line(items[k], Unwrap(get_tx(txs, items[k])))]]

\* What in_order() and csv_line_iter() make of the items of the cell
ReadResult(read, items) ==
    CASE read = "in_order" -> items
      [] read = "csv_line_iter" -> csv_line_iter(items, transactions)

\* A call of in_order(), directly or by csv_line_iter(): HashMap::values()
\* visits the queues in some order
CallInOrder(read) ==
    \E order \in KeyOrders(DOMAIN ledger) :
        /\ cell' = get_or_init(cell, in_order(ledger, order))
        /\ returned' = [returned EXCEPT ![read] = Some(ReadResult(read, Unwrap(cell')))]
        /\ calls' = [calls EXCEPT ![read] = @ + 1]

CallYearlyReport ==
    \E order \in KeyOrders(DOMAIN ledger) :
        /\ cell' = get_or_init(cell, in_order(ledger, order))
        /\ \E year_order \in KeyOrders(DOMAIN total_report(Unwrap(cell'))) :
            returned' = [returned EXCEPT !["yearly_income_loss_report"] =
                            Some(yearly_income_loss_report(Unwrap(cell'), year_order))]
        /\ calls' = [calls EXCEPT !["yearly_income_loss_report"] = @ + 1]

----------------------------------------------------------------------------
(* The command line: src/src/main.rs 63-114 *)

LastDateOf(txs) == IF txs = <<>> THEN 1 ELSE txs[Len(txs)].date

\* The rows of the input files of main
MainInputs ==
    {<<"Buying", EUR, One, oa, One>> : oa \in Crypto}
    \cup {<<t, EUR, iq, "Y", One>> : t \in InterestTypes, iq \in {0, One}}
    \cup {<<"Selling", "X", iq, EUR, One>> : iq \in Amounts \ {0}}
    \cup {<<"Swap", "X", One, "Y", oq>> : oq \in {0, One}}
    \cup {<<"Bridge", "X", One, "Y", 0>>, <<"Nft", EUR, One, "Y", One>>}
    \cup {<<"Transfer", "X", 2 * One, "X", One>>, <<"Buying", EUR, One, "X", 2 * One>>}
    \cup {<<"Selling", "Y", One, EUR, One>>}

NextAfter(txs, inputs) ==
    {new_transaction(Len(txs) + 1, d, s[1], s[2], s[3], s[4], s[5]) :
        d \in {x \in Dates : x >= LastDateOf(txs) /\ x <= LastDateOf(txs) + 1}, s \in inputs}

\* The lists of at most n transactions TransactionsProvider::get can return:
\* sorted by date, with the ordinals 1, 2, ...
RECURSIVE Lists(_, _)
Lists(n, inputs) ==
    IF n = 0 THEN {<<>>}
    ELSE LET shorter == Lists(n - 1, inputs)
         IN shorter \cup UNION {{Append(txs, tx) : tx \in NextAfter(txs, inputs)} :
                                    txs \in {t \in shorter : Len(t) = n - 1}}

\* fifo.rs 408-412: Ledger::process, from the state r on
RECURSIVE process(_, _)
process(r, txs) ==
    IF txs = <<>> \/ r.panic # "" THEN r
    ELSE LET tx == Head(txs)
             done == add_transaction(r.ledger, r.origin, tx)
         IN IF done.panic # "" THEN [r EXCEPT !.panic = done.panic, !.failed = Some(tx)]
            ELSE process([ledger |-> done.ledger, origin |-> done.origin, before |-> r.ledger,
                          log |-> IF done.shortfall = None THEN r.log
                                  ELSE Append(r.log, [ordinal |-> tx.ordinal,
                                                      shortfall |-> Unwrap(done.shortfall)]),
                          panic |-> "", failed |-> None],
                         Tail(txs))

\* fifo.rs 316-328: Ledger::new(transactions, price_provider)
ledger_new(txs) ==
    process([ledger |-> EmptyLedger, origin |-> EmptyLedger, before |-> EmptyLedger,
             log |-> <<>>, panic |-> "", failed |-> None], txs)

MainInit ==
    /\ NewLedger
    /\ entries = <<>>
    /\ given = <<>>
    /\ pc = "parse"

\* main.rs 63-65
Parse ==
    /\ pc = "parse"
    /\ \E txs \in Lists(MaxTx, MainInputs) : given' = txs
    /\ pc' = "validate"
    /\ UNCHANGED <<transactions, ledger, status, panic, failed, log, origin, before,
                   cell, entries, returned, calls>>

\* main.rs 67-69
Validate ==
    /\ pc = "validate"
    /\ IF context_validation(given).err = ""
       THEN pc' = "prices" /\ UNCHANGED returned
       ELSE /\ pc' = "exit"
            /\ returned' = [returned EXCEPT !["main"] =
                                Some([error |-> context_validation(given).err, missing |-> <<>>])]
    /\ UNCHANGED <<transactions, ledger, status, panic, failed, log, origin, before,
                   cell, entries, given, calls>>

\* main.rs 78-87
CheckPrices ==
    /\ pc = "prices"
    /\ IF missing_prices(given) = <<>>
       THEN pc' = "ledger" /\ UNCHANGED returned
       ELSE /\ pc' = "exit"
            /\ returned' = [returned EXCEPT !["main"] =
                                Some([error |-> "Missing prices for some transactions",
                                      missing |-> missing_prices(given)])]
    /\ UNCHANGED <<transactions, ledger, status, panic, failed, log, origin, before,
                   cell, entries, given, calls>>

\* main.rs 89-90
Construct ==
    /\ pc = "ledger"
    /\ LET r == ledger_new(given) IN
        IF r.panic # ""
        THEN /\ status' = "panicked"
             /\ panic' = r.panic
             /\ failed' = r.failed
             /\ pc' = "exit"
             /\ UNCHANGED <<transactions, ledger, origin, before, log>>
        ELSE /\ transactions' = given
             /\ ledger' = r.ledger
             /\ origin' = r.origin
             /\ before' = r.before
             /\ log' = r.log
             /\ pc' = "report"
             /\ UNCHANGED <<status, panic, failed>>
    /\ UNCHANGED <<cell, entries, given, returned, calls>>

\* main.rs 92-96
Report ==
    /\ pc = "report"
    /\ CallYearlyReport
    /\ pc' = "csv"
    /\ UNCHANGED <<transactions, ledger, status, panic, failed, log, origin, before,
                   entries, given>>

\* main.rs 98-114
WriteCsv ==
    /\ pc = "csv"
    /\ CallInOrder("csv_line_iter")
    /\ pc' = "exit"
    /\ UNCHANGED <<transactions, ledger, status, panic, failed, log, origin, before,
                   entries, given>>

MainNext == Parse \/ Validate \/ CheckPrices \/ Construct \/ Report \/ WriteCsv

MainSpec == MainInit /\ [][MainNext]_vars

----------------------------------------------------------------------------
(* A caller of the library: a ledger is constructed, then read *)

MaxReads == 2

\* Ledger::new returned: any list of transactions it does not panic on
ReadInit ==
    /\ \E txs \in Lists(MaxTx, MainInputs) :
        LET r == ledger_new(txs) IN
            /\ r.panic = ""
            /\ given = txs
            /\ transactions = txs
            /\ ledger = r.ledger
            /\ origin = r.origin
            /\ before = r.before
            /\ log = r.log
    /\ entries = <<>>
    /\ status = "ok"
    /\ panic = ""
    /\ failed = None
    /\ cell = None
    /\ returned = NothingReturned
    /\ calls = NeverCalled
    /\ pc = "read"

ReadFrame ==
    UNCHANGED <<transactions, ledger, status, panic, failed, log, origin, before,
                entries, given, pc>>

InOrder ==
    /\ pc = "read"
    /\ calls["in_order"] < MaxReads
    /\ CallInOrder("in_order")
    /\ ReadFrame

YearlyIncomeLossReport ==
    /\ pc = "read"
    /\ calls["yearly_income_loss_report"] < MaxReads
    /\ CallYearlyReport
    /\ ReadFrame

CsvLineIter ==
    /\ pc = "read"
    /\ calls["csv_line_iter"] < MaxReads
    /\ CallInOrder("csv_line_iter")
    /\ ReadFrame

ReadNext == InOrder \/ YearlyIncomeLossReport \/ CsvLineIter

ReadSpec == ReadInit /\ [][ReadNext]_vars

----------------------------------------------------------------------------
(* A call of context_validation: src/src/validation.rs 34-157 *)

\* The Result of context_validation: Ok(state) has err = "", Err(message) has no state
context_validation_result(txs) ==
    LET v == context_validation(txs)
    IN [err |-> v.err, state |-> IF v.err = "" THEN Some(v.state) ELSE None]

\* The transactions of the lists: a purchase, sales of as much as was bought,
\* of a thousandth more and of twice as much, an Interest with no input, a
\* swap into a second asset, and a purchase whose sheet row has a negative
\* output amount (xlsx_parser.rs 175-186 parses any decimal)
ValidationInputs ==
    {<<"Buying", EUR, One, "X", One>>, <<"Selling", "X", One, EUR, One>>,
     <<"Selling", "X", One + 1, EUR, One>>, <<"Selling", "X", 2 * One, EUR, One>>,
     <<"Interest", EUR, 0, "X", One>>, <<"Swap", "X", One, "Y", One>>,
     <<"Buying", EUR, One, "X", 0 - One>>}

ValidationDates == {d \in Dates : d <= 2}

\* Any list of at most n transactions: the n-th has the ordinal n or, a
\* number skipped, n + 1, and any of the dates
RECURSIVE AnyLists(_, _)
AnyLists(n, inputs) ==
    IF n = 0 THEN {<<>>}
    ELSE LET shorter == AnyLists(n - 1, inputs)
         IN shorter \cup
            {Append(txs, new_transaction(o, d, s[1], s[2], s[3], s[4], s[5])) :
                txs \in {t \in shorter : Len(t) = n - 1},
                o \in {n, n + 1}, d \in ValidationDates, s \in inputs}

ValidationInit ==
    /\ NewLedger
    /\ entries = <<>>
    /\ given \in AnyLists(MaxTx, ValidationInputs)
    /\ pc = "context_validation"

ContextValidation ==
    /\ pc = "context_validation"
    /\ returned' = [returned EXCEPT !["context_validation"] =
                        Some(context_validation_result(given))]
    /\ pc' = "exit"
    /\ UNCHANGED <<transactions, ledger, status, panic, failed, log, origin, before,
                   cell, entries, given, calls>>

ValidationNext == ContextValidation

ValidationSpec == ValidationInit /\ [][ValidationNext]_vars

----------------------------------------------------------------------------
(* TransactionsProvider::get: src/src/fifo-types/src/parser.rs 21-47 *)

MaxEntries == 2
MaxRows == 2

Ok(v) == [err |-> "", value |-> Some(v)]

Err(e) == [err |-> e, value |-> None]

\* parser.rs 26-28: the entries are appended until one of them is an Err
RECURSIVE append_entries(_, _)
append_entries(txs, iter) ==
    IF iter = <<>> THEN Ok(txs)
    ELSE IF Head(iter).err # "" THEN Err(Head(iter).err)
    ELSE append_entries(txs \o Unwrap(Head(iter).value), Tail(iter))

RECURSIVE sort_insert_before_later(_, _)
sort_insert_before_later(sorted, tx) ==
    IF sorted = <<>> THEN <<tx>>
    ELSE IF sorted[Len(sorted)].date < tx.date THEN Append(sorted, tx)
    ELSE Append(sort_insert_before_later(SubSeq(sorted, 1, Len(sorted) - 1), tx),
                sorted[Len(sorted)])

RECURSIVE sort_by_date_unstable(_)
sort_by_date_unstable(txs) ==
    IF txs = <<>> THEN <<>>
    ELSE sort_insert_before_later(sort_by_date_unstable(SubSeq(txs, 1, Len(txs) - 1)),
                                  txs[Len(txs)])

RECURSIVE sort_insert_by_date(_, _)
sort_insert_by_date(sorted, tx) ==
    IF sorted = <<>> THEN <<tx>>
    ELSE IF sorted[Len(sorted)].date <= tx.date THEN Append(sorted, tx)
    ELSE Append(sort_insert_by_date(SubSeq(sorted, 1, Len(sorted) - 1), tx),
                sorted[Len(sorted)])

\* parser.rs 31: Vec::sort_by_key(|t| t.date()), a stable sort
RECURSIVE sort_by_date(_)
sort_by_date(txs) ==
    IF txs = <<>> THEN <<>>
    ELSE sort_insert_by_date(sort_by_date(SubSeq(txs, 1, Len(txs) - 1)), txs[Len(txs)])

\* core.rs 182-185
new_with_ordinal(tx, ordinal) == [tx EXCEPT !.ordinal = ordinal]

\* parser.rs 34-41: the counter starts at 0 and is incremented before each use
update_ordinals(txs) == [k \in 1 .. Len(txs) |-> new_with_ordinal(txs[k], k)]

\* parser.rs 23-46
get(iter) ==
    LET appended == append_entries(<<>>, iter)
    IN IF appended.err # "" THEN appended
       ELSE Ok(update_ordinals(sort_by_date(Unwrap(appended.value))))

\* The rows of a sheet: a purchase of X or of Y on one of two days
ParserRows ==
    {<<"Buying", EUR, One, oa, One, d>> : oa \in Crypto, d \in ValidationDates}

\* The sheets of at most n rows; the k-th row has the ordinal k
RECURSIVE Sheets(_)
Sheets(n) ==
    IF n = 0 THEN {<<>>}
    ELSE LET shorter == Sheets(n - 1)
         IN shorter \cup
            {Append(txs, new_transaction(n, s[6], s[1], s[2], s[3], s[4], s[5])) :
                txs \in {t \in shorter : Len(t) = n - 1}, s \in ParserRows}

\* What the parser yields for one sheet: its rows, or one of two errors
ParserData == {Ok(txs) : txs \in Sheets(MaxRows)} \cup {Err("sheet not found"), Err("bad row")}

RECURSIVE Parsers(_)
Parsers(n) ==
    IF n = 0 THEN {<<>>}
    ELSE LET shorter == Parsers(n - 1)
         IN shorter \cup {Append(iter, e) : iter \in {t \in shorter : Len(t) = n - 1},
                                             e \in ParserData}

ParserInit ==
    /\ NewLedger
    /\ entries \in Parsers(MaxEntries)
    /\ given = <<>>
    /\ pc = "get"

Get ==
    /\ pc = "get"
    /\ returned' = [returned EXCEPT !["get"] = Some(get(entries))]
    /\ pc' = "exit"
    /\ UNCHANGED <<transactions, ledger, status, panic, failed, log, origin, before,
                   cell, entries, given, calls>>

ParserNext == Get

ParserSpec == ParserInit /\ [][ParserNext]_vars

----------------------------------------------------------------------------
(* Vocabulary of the properties *)

Processed == status = "ok" /\ transactions # <<>>

LastTx == transactions[Len(transactions)]

SameAssetTransfer(tx) == tx.tx_type \in TransferTypes /\ tx.input_type = tx.output_type

IsDisposal(tx) == tx.tx_type \in SellingTypes \cup TransferTypes

\* The transaction process_selling_or_swap was given
Effective(tx) == IF SameAssetTransfer(tx) THEN dummy_tx(tx) ELSE tx

QueueBefore(a) == IF a \in DOMAIN before THEN before[a] ELSE <<>>

\* The items the last transaction appended, and the lots they consumed
NewItemsOf(a) == SubSeq(ledger[a], Len(QueueBefore(a)) + 1, Len(ledger[a]))

NewLotsOf(a) == SubSeq(origin[a], Len(QueueBefore(a)) + 1, Len(origin[a]))

NewItems == NewItemsOf(Effective(LastTx).output_type)

NewLots == NewLotsOf(Effective(LastTx).output_type)

\* Every item of the ledger, as <<asset, position>>
Positions == UNION {{<<a, k>> : k \in 1 .. Len(ledger[a])} : a \in DOMAIN ledger}

ItemAt(pos) == ledger[pos[1]][pos[2]]

IsFragment(pos) == origin[pos[1]][pos[2]] # 0

\* The lot a fragment consumed
LotOf(pos) == <<ItemAt(pos).input_type, origin[pos[1]][pos[2]]>>

RECURSIVE SumSeq(_)
SumSeq(q) == IF q = <<>> THEN 0 ELSE q[Len(q)] + SumSeq(SubSeq(q, 1, Len(q) - 1))

Remaining(q) == SumSeq([k \in 1 .. Len(q) |-> q[k].remaining_amount])

OutputOfOrdinal(i) ==
    LET a == Effective(transactions[i]).output_type
        own == SelectSeq(ledger[a], LAMBDA item : item.ordinal = i)
    IN SumSeq([k \in 1 .. Len(own) |-> own[k].output_amount])

HasItems(i) == \E pos \in Positions : ItemAt(pos).ordinal = i

HasShortfall(i) == \E k \in 1 .. Len(log) : log[k].ordinal = i

----------------------------------------------------------------------------
(* C1: FIFO ordering.  Whenever the last transaction took a positive       *)
(* amount out of a lot, every lot that stands earlier in that asset's      *)
(* queue is exhausted once the transaction is done.                        *)

C1_FifoOrdering ==
    Processed =>
        \A a \in DOMAIN before : \A k \in 1 .. Len(before[a]) :
            ledger[a][k].remaining_amount < before[a][k].remaining_amount =>
                \A j \in 1 .. (k - 1) : ledger[a][j].remaining_amount = 0

\* A disposal that exhausted the oldest lot and went on into the next one
C1_Witness ==
    /\ Processed
    /\ IsDisposal(LastTx)
    /\ \E a \in DOMAIN before :
        /\ Len(before[a]) >= 2
        /\ before[a][1].remaining_amount > 0
        /\ ledger[a][1].remaining_amount = 0
        /\ ledger[a][2].remaining_amount < before[a][2].remaining_amount

(* C2: every inventory item has 0 <= remaining_amount <= output_amount.    *)

C2_RemainingWithinOutput ==
    \A pos \in Positions :
        /\ 0 <= ItemAt(pos).remaining_amount
        /\ ItemAt(pos).remaining_amount <= ItemAt(pos).output_amount

(* C3: the output_amount values of the items that carry a transaction's    *)
(* ordinal sum to that transaction's output_amount, for every transaction  *)
(* that created an item.                                                   *)

C3_FragmentsSumToOutput ==
    Processed =>
        \A i \in 1 .. Len(transactions) :
            HasItems(i) => OutputOfOrdinal(i) = transactions[i].output_amount

(* C3 as amended: the same, for every transaction that created an item,    *)
(* met no shortfall and is not a Transfer or Bridge within one asset.      *)

C3_FragmentsSumToOutputWhenSatisfied ==
    Processed =>
        \A i \in 1 .. Len(transactions) :
            HasItems(i) /\ ~HasShortfall(i) /\ ~SameAssetTransfer(transactions[i]) =>
                OutputOfOrdinal(i) = transactions[i].output_amount

\* A disposal cut into two fragments, the second taking the rest of the output
C3_Witness ==
    /\ Processed
    /\ IsDisposal(LastTx)
    /\ ~SameAssetTransfer(LastTx)
    /\ ~HasShortfall(Len(transactions))
    /\ Len(NewItems) = 2
    /\ LastTx.output_amount > 0
    /\ NewItems[1].output_amount > 0

(* C4: a fragment of a disposal into a non-fiat asset has cost_basis =     *)
(* (tx.input_amount / tx.output_amount) * the consumed lot's cost_basis;   *)
(* over two such hops A -> B -> C the C fragment has cb_A * r1 * r2.       *)

Rate(i) == DecDiv(transactions[i].input_amount, transactions[i].output_amount)

C4_CostBasisChaining ==
    Processed =>
        \A pos \in Positions :
            IsFragment(pos) /\ ~is_fiat(ItemAt(pos).output_type) =>
                /\ ItemAt(pos).cost_basis =
                        DecMul(Rate(ItemAt(pos).ordinal), ItemAt(LotOf(pos)).cost_basis)
                /\ IsFragment(LotOf(pos)) /\ ~is_fiat(ItemAt(LotOf(pos)).output_type) =>
                        ItemAt(pos).cost_basis =
                            DecMul(DecMul(ItemAt(LotOf(LotOf(pos))).cost_basis,
                                          Rate(ItemAt(LotOf(pos)).ordinal)),
                                   Rate(ItemAt(pos).ordinal))

\* A two-hop chain whose rates and first cost basis all differ from 1
C4_Witness ==
    /\ Processed
    /\ \E pos \in Positions :
        /\ IsFragment(pos) /\ ~is_fiat(ItemAt(pos).output_type)
        /\ IsFragment(LotOf(pos)) /\ ~is_fiat(ItemAt(LotOf(pos)).output_type)
        /\ Rate(ItemAt(pos).ordinal) # One
        /\ Rate(ItemAt(LotOf(pos)).ordinal) # One
        /\ ItemAt(LotOf(LotOf(pos))).cost_basis # One

(* C5: every fragment has the acquisition_date of the lot it consumed.     *)

C5_AcquisitionDateInherited ==
    Processed =>
        \A pos \in Positions :
            IsFragment(pos) =>
                ItemAt(pos).acquisition_date = ItemAt(LotOf(pos)).acquisition_date

(* C6: an Interest or Airdrop of q units at price P adds exactly q * P to  *)
(* the income and to the profit of its year, and nothing to the expense.   *)

NoReport(y) == [year |-> y, income |-> 0, expense |-> 0, profit |-> 0]

\* The YearlyReport of year y in the totals of a ledger (all zero when it has none)
ReportOf(totals, y) == IF y \in DOMAIN totals THEN totals[y] ELSE NoReport(y)

Years == {Year(d) : d \in Dates}

C6_ZeroCostIncomeOnce ==
    Processed /\ LastTx.tx_type \in InterestTypes =>
        LET y == Year(LastTx.date)
            qP == DecMul(LastTx.output_amount,
                         Unwrap(get_price(LastTx.output_type, LastTx.date)))
            now == ReportOf(yearly_totals(ledger), y)
            was == ReportOf(yearly_totals(before), y)
        IN /\ now.income - was.income = qP
           /\ now.profit - was.profit = qP
           /\ now.expense = was.expense

(* C7: a fragment with a sale_price has income = input_amount * sale_price,*)
(* expense = input_amount * cost_basis, profit = income - expense, and the *)
(* three are added to the report of the year of the disposal's date; no    *)
(* other year's report changes.                                            *)

SaleIncome(item) == DecMul(item.input_amount, Unwrap(item.sale_price))

SaleExpense(item) == DecMul(item.input_amount, item.cost_basis)

Sold(items) == SelectSeq(items, LAMBDA item : item.sale_price # None)

SumOver(items, Value(_)) == SumSeq([k \in 1 .. Len(items) |-> Value(items[k])])

SaleProfit(item) == SaleIncome(item) - SaleExpense(item)

C7_RealizedGain ==
    Processed =>
        /\ \A pos \in Positions :
            ItemAt(pos).sale_price # None =>
                /\ income(ItemAt(pos)) = Some(SaleIncome(ItemAt(pos)))
                /\ expense(ItemAt(pos)) = Some(SaleExpense(ItemAt(pos)))
                /\ profit(ItemAt(pos)) = Some(SaleIncome(ItemAt(pos)) - SaleExpense(ItemAt(pos)))
                /\ ItemAt(pos).date = transactions[ItemAt(pos).ordinal].date
        /\ IsDisposal(LastTx) =>
            LET totals_now == yearly_totals(ledger)
                totals_was == yearly_totals(before)
            IN \A y \in Years :
                LET sold == IF y = Year(LastTx.date) THEN Sold(NewItems) ELSE <<>>
                    now == ReportOf(totals_now, y)
                    was == ReportOf(totals_was, y)
                IN /\ now.income - was.income = SumOver(sold, SaleIncome)
                   /\ now.expense - was.expense = SumOver(sold, SaleExpense)
                   /\ now.profit - was.profit = SumOver(sold, SaleProfit)

\* Buy 1 X for 1 EUR in one year, sell it for 2 EUR in the next: the lot is
\* exhausted, the one fragment has income 2, expense 1, profit 1, all in the
\* second year's report
C7_Witness ==
    /\ Processed
    /\ Len(transactions) = 2
    /\ LastTx.tx_type = "Selling"
    /\ Year(transactions[1].date) # Year(LastTx.date)
    /\ Len(ledger[LastTx.input_type]) = 1
    /\ ledger[LastTx.input_type][1].remaining_amount = 0
    /\ Len(NewItems) = 1
    /\ income(NewItems[1]) = Some(2 * One)
    /\ expense(NewItems[1]) = Some(One)
    /\ profit(NewItems[1]) = Some(One)
    /\ ReportOf(yearly_totals(ledger), Year(LastTx.date)) =
            [year |-> Year(LastTx.date), income |-> 2 * One, expense |-> One, profit |-> One]
    /\ ReportOf(yearly_totals(ledger), Year(transactions[1].date)) =
            NoReport(Year(transactions[1].date))

(* C8: a disposal of more than the oldest open lot holds, but of no more   *)
(* than the asset holds, makes one fragment per lot it touches, in queue   *)
(* order; every touched lot but the last ends at 0, the last loses the     *)
(* residual, and each fragment's profit is                                 *)
(* consumed * (sale_price - lot's cost_basis).                             *)

HasOpenLot(q) == \E k \in 1 .. Len(q) : q[k].remaining_amount > 0

\* The oldest lot of the queue with something left
Oldest(q) ==
    CHOOSE k \in 1 .. Len(q) :
        /\ q[k].remaining_amount > 0
        /\ \A j \in 1 .. (k - 1) : ~(q[j].remaining_amount > 0)

Max(S) == CHOOSE m \in S : \A n \in S : n <= m

\* The lots whose remaining_amount the last transaction changed
Touched(a) == {k \in 1 .. Len(before[a]) :
                    ledger[a][k].remaining_amount # before[a][k].remaining_amount}

CrossLotCase ==
    /\ Processed
    /\ LastTx.tx_type \in SellingTypes
    /\ HasOpenLot(before[LastTx.input_type])
    /\ LastTx.input_amount >
            before[LastTx.input_type][Oldest(before[LastTx.input_type])].remaining_amount
    /\ LastTx.input_amount <= Remaining(before[LastTx.input_type])

\* What C8 says of the lots and of the fragments' amounts
CrossLotShape ==
    LET a == LastTx.input_type
        q == before[a]
        last == Max(Touched(a))
        others == SelectSeq([k \in 1 .. Len(q) |-> k], LAMBDA k : k \in Touched(a) \ {last})
    IN /\ Oldest(q) \in Touched(a)
       /\ Len(NewItems) = Cardinality(Touched(a))
       /\ {NewLots[n] : n \in 1 .. Len(NewLots)} = Touched(a)
       /\ \A n \in 1 .. (Len(NewLots) - 1) : NewLots[n] < NewLots[n + 1]
       /\ \A k \in Touched(a) \ {last} : ledger[a][k].remaining_amount = 0
       /\ ledger[a][last].remaining_amount =
            q[last].remaining_amount -
                (LastTx.input_amount - SumSeq([n \in 1 .. Len(others) |->
                                                q[others[n]].remaining_amount]))
       /\ \A n \in 1 .. Len(NewItems) :
            NewItems[n].input_amount =
                q[NewLots[n]].remaining_amount - ledger[a][NewLots[n]].remaining_amount

Handled == IF status = "panicked" THEN Unwrap(failed) ELSE LastTx

\* A disposal as add_transaction hands it to process_selling_or_swap unchanged
ProperDisposal(tx) == IsDisposal(tx) /\ ~SameAssetTransfer(tx)

ZeroOutputSwap(tx) == ~is_fiat(tx.output_type) /\ tx.output_amount = 0

PartialCase(l, tx) ==
    /\ ProperDisposal(tx)
    /\ tx.input_type \in DOMAIN l
    /\ HasOpenLot(l[tx.input_type])
    /\ 0 < tx.input_amount
    /\ tx.input_amount < l[tx.input_type][Oldest(l[tx.input_type])].remaining_amount

PartialEffect(l, l2, tx) ==
    LET a == tx.input_type
        o == tx.output_type
        k == Oldest(l[a])
    IN /\ DOMAIN l2 = DOMAIN l \cup {o}
       /\ \A b \in DOMAIN l2 :
            Len(l2[b]) = Len(entry_or_default(l, b)) + (IF b = o THEN 1 ELSE 0)
       /\ l2[o][Len(l2[o])].input_amount = tx.input_amount
       /\ l2[o][Len(l2[o])].output_amount = tx.output_amount
       /\ l2[o][Len(l2[o])].ordinal = tx.ordinal
       /\ \A b \in DOMAIN l : \A j \in 1 .. Len(l[b]) :
            l2[b][j] = IF <<b, j>> = <<a, k>>
                       THEN [l[b][j] EXCEPT !.remaining_amount = @ - tx.input_amount]
                       ELSE l[b][j]

C9_PartialConsumption ==
    [][PartialCase(ledger, Handled') => status' = "ok" /\ PartialEffect(ledger, ledger', Handled')]_vars

(* C9 as amended: the same, unless the output asset is not fiat and the    *)
(* output amount is 0: then the construction of the ledger aborts.         *)

C9_PartialConsumptionUnlessZeroOutputSwap ==
    [][PartialCase(ledger, Handled') =>
        IF ZeroOutputSwap(Handled')
        THEN status' = "panicked"
        ELSE status' = "ok" /\ PartialEffect(ledger, ledger', Handled')]_vars

\* A partial sale from the one lot of its asset, with a lot of another asset in the ledger
C9_Witness ==
    /\ Processed
    /\ PartialCase(before, LastTx)
    /\ is_fiat(LastTx.output_type)
    /\ Cardinality(DOMAIN ledger) = 3
    /\ ledger[LastTx.input_type][1].remaining_amount > 0

(* C10: a disposal of more than the R units its asset holds does not       *)
(* abort; it leaves every lot of the asset at 0, logs the shortfall        *)
(* input_amount - R, makes fragments whose input amounts sum to R, and the *)
(* run goes on.                                                            *)

ShortCase(l, tx) ==
    /\ IsDisposal(tx)
    /\ tx.input_type \in DOMAIN l
    /\ Effective(tx).input_amount > Remaining(l[tx.input_type])

ShortEffect(l, l2, tx) ==
    LET a == tx.input_type
        o == Effective(tx).output_type
        R == Remaining(l[a])
        made == SubSeq(l2[o], Len(entry_or_default(l, o)) + 1, Len(l2[o]))
    IN /\ \A k \in 1 .. Len(l[a]) : l2[a][k].remaining_amount = 0
       /\ log' = Append(log, [ordinal |-> tx.ordinal,
                              shortfall |-> Effective(tx).input_amount - R])
       /\ SumSeq([n \in 1 .. Len(made) |-> made[n].input_amount]) = R
       /\ transactions' = Append(transactions, tx)

AssetNotFound == "Must exist since data was validated."

\* Ledger::new did not return: there is no ledger to read from
Aborted == status = "panicked" /\ ledger = EmptyLedger /\ transactions = <<>>

C11_AssetNotFoundFatal ==
    [][IsDisposal(Handled') =>
        /\ Handled'.input_type \notin DOMAIN ledger => Aborted' /\ panic' = AssetNotFound
        /\ Handled'.input_type \in DOMAIN ledger /\ ~HasOpenLot(ledger[Handled'.input_type]) =>
                status' = "ok" /\ transactions' = Append(transactions, Handled')]_vars

\* A sale of an asset that was never acquired, after another asset was bought
C11_Witness ==
    /\ Aborted
    /\ panic = AssetNotFound
    /\ Unwrap(failed).tx_type = "Selling"
    /\ Unwrap(failed).ordinal = 2

\* A swap, with output amount 0, out of a queue whose only lot is used up
C11_ExhaustedQueueProcessed ==
    /\ Processed
    /\ LastTx.tx_type = "Swap"
    /\ LastTx.output_amount = 0
    /\ Len(before[LastTx.input_type]) = 1
    /\ ~HasOpenLot(before[LastTx.input_type])

(* C12: a Buying or Invoice with output_amount = 0 aborts the construction *)
(* of the ledger, and no inventory item is created for it.                 *)

MissingCostBasis == "Must be non-zero for buying transaction."

C12_MissingCostBasisFatal ==
    [][Handled'.tx_type \in BuyingTypes =>
        IF Handled'.output_amount = 0
        THEN Aborted' /\ panic' = MissingCostBasis
        ELSE status' = "ok"]_vars

\* An Invoice of 0 X, after a first transaction was processed
C12_Witness ==
    /\ Aborted
    /\ panic = MissingCostBasis
    /\ Unwrap(failed).tx_type = "Invoice"
    /\ Unwrap(failed).output_amount = 0
    /\ Unwrap(failed).ordinal = 2

(* C13: missing_prices(transactions) is the list of the (output asset,     *)
(* date) pairs of the Interest and Airdrop transactions the provider has   *)
(* no price for; when it is empty no price lookup of Ledger::new fails,    *)
(* and when it is not, Ledger::new aborts on the same transactions.        *)

MissingPrice == "Must exist"

\* The positions of the Interest and Airdrop transactions that have no price in the file
Unpriced(txs) ==
    SelectSeq([k \in 1 .. Len(txs) |-> k], LAMBDA k :
        /\ txs[k].tx_type \in InterestTypes
        /\ <<txs[k].output_type, txs[k].date>> \notin DOMAIN prices)

C13_PricePreCheck ==
    [][LET fed == Append(transactions, Handled')
           missing == missing_prices(fed)
       IN /\ Len(missing) = Len(Unpriced(fed))
          /\ \A k \in 1 .. Len(missing) :
                missing[k] = <<fed[Unpriced(fed)[k]].output_type, fed[Unpriced(fed)[k]].date>>
          /\ missing = <<>> => panic' # MissingPrice
          /\ missing # <<>> => Aborted']_vars

\* An Airdrop of Y on the day the price file has no price of Y for, third in the input
C13_Witness ==
    /\ Aborted
    /\ panic = MissingPrice
    /\ Unwrap(failed).tx_type = "Airdrop"
    /\ Unwrap(failed).ordinal = 3
    /\ missing_prices(<<Unwrap(failed)>>) = <<<<"Y", 2>>>>

(* C15: the ledger never holds an item whose output asset is fiat with     *)
(* remaining_amount > 0: no fiat lot is open to a later disposal.          *)

C15_FiatNeverInventory ==
    \A pos \in Positions :
        is_fiat(ItemAt(pos).output_type) => ~(ItemAt(pos).remaining_amount > 0)

\* The sequel of the same run: an Nft bought with EUR takes its input from such a lot
C15_FiatLotConsumed ==
    /\ Processed
    /\ is_fiat(LastTx.input_type)
    /\ LastTx.tx_type = "Nft"
    /\ Touched(EUR) # {}
    /\ Len(NewItems) >= 1

(* C16: a Transfer or Bridge of a units into b units of the same asset     *)
(* (a >= b, the asset holding at least a - b) lowers the asset's total     *)
(* remaining amount by a - b, adds no item to the asset's queue, and makes *)
(* fragments with output_amount 0, income 0 and expense = consumed amount  *)
(* * the consumed lot's cost_basis.  Between two assets it has the effect  *)
(* of a Swap of the same amounts.                                          *)

SameAssetCase(l, tx) ==
    /\ SameAssetTransfer(tx)
    /\ tx.input_type \in DOMAIN l
    /\ tx.input_amount >= tx.output_amount
    /\ Remaining(l[tx.input_type]) >= tx.input_amount - tx.output_amount

SameAssetEffect(l, l2, lots, tx) ==
    LET a == tx.input_type
        made == SubSeq(l2[EUR], Len(entry_or_default(l, EUR)) + 1, Len(l2[EUR]))
        from == SubSeq(lots[EUR], Len(entry_or_default(l, EUR)) + 1, Len(lots[EUR]))
    IN /\ Remaining(l2[a]) = Remaining(l[a]) - (tx.input_amount - tx.output_amount)
       /\ Len(l2[a]) = Len(l[a])
       /\ \A b \in DOMAIN l2 \ {EUR} : Len(l2[b]) = Len(entry_or_default(l, b))
       /\ SumSeq([n \in 1 .. Len(made) |-> made[n].input_amount]) =
                tx.input_amount - tx.output_amount
       /\ \A n \in 1 .. Len(made) :
            /\ made[n].ordinal = tx.ordinal
            /\ made[n].output_amount = 0
            /\ income(made[n]) = Some(0)
            /\ expense(made[n]) = Some(DecMul(made[n].input_amount, l[a][from[n]].cost_basis))
            /\ profit(made[n]) = Some(0 - DecMul(made[n].input_amount, l[a][from[n]].cost_basis))

\* What the same transaction does when it is entered as a Swap
AsSwap(tx) == add_transaction(ledger, origin, [tx EXCEPT !.tx_type = "Swap"])

C16_SameAssetTransfer ==
    [][Handled'.tx_type \in TransferTypes =>
        /\ SameAssetCase(ledger, Handled') =>
                status' = "ok" /\ SameAssetEffect(ledger, ledger', origin', Handled')
        /\ Handled'.input_type # Handled'.output_type =>
                IF AsSwap(Handled').panic # ""
                THEN Aborted' /\ panic' = AsSwap(Handled').panic
                ELSE status' = "ok" /\ ledger' = AsSwap(Handled').ledger]_vars

\* A Transfer of 2 X that arrives as 1 X: the unit lost is taken from a lot
\* that keeps the rest, at an expense above 0
C16_Witness ==
    /\ Processed
    /\ SameAssetCase(before, LastTx)
    /\ LastTx.output_amount > 0
    /\ LastTx.input_amount > LastTx.output_amount
    /\ Len(NewItemsOf(EUR)) = 1
    /\ Unwrap(expense(NewItemsOf(EUR)[1])) > 0
    /\ Remaining(ledger[LastTx.input_type]) > 0

(* C17: processing a transaction removes no item, moves none, and changes  *)
(* no field of an existing item but remaining_amount; only items of the    *)
(* queue of the input asset change, and the new items, which carry the     *)
(* transaction's ordinal, are added after the last item of the queue of    *)
(* the output asset (fiat, for a Transfer or Bridge within one asset).     *)

Frame(l, l2, tx) ==
    /\ \A a \in DOMAIN l :
        /\ a \in DOMAIN l2
        /\ Len(l2[a]) >= Len(l[a])
        /\ \A k \in 1 .. Len(l[a]) :
            /\ [l2[a][k] EXCEPT !.remaining_amount = l[a][k].remaining_amount] = l[a][k]
            /\ l2[a][k] # l[a][k] => a = tx.input_type
    /\ \A a \in DOMAIN l2 : \A k \in (Len(entry_or_default(l, a)) + 1) .. Len(l2[a]) :
        /\ a = Effective(tx).output_type
        /\ l2[a][k].ordinal = tx.ordinal

ValidationOk == context_validation(given).err = ""

\* Ledger::new was called, or is the next statement
ConstructionStarted ==
    \/ pc \in {"ledger", "report", "csv"}
    \/ status = "panicked"
    \/ ledger # EmptyLedger
    \/ transactions # <<>>
    \/ cell # None
    \/ \E q \in Reads : returned[q] # None

\* main returned the error of the price check, with all the pairs, and nothing else was made
EndedOnMissingPrices ==
    /\ returned["main"] # None
    /\ Unwrap(returned["main"]).error = "Missing prices for some transactions"
    /\ Len(Unwrap(returned["main"]).missing) = Len(Unpriced(given))
    /\ \A k \in 1 .. Len(Unpriced(given)) :
            Unwrap(returned["main"]).missing[k] =
                <<given[Unpriced(given)[k]].output_type, given[Unpriced(given)[k]].date>>
    /\ ~ConstructionStarted

AnOrder(keys) == CHOOSE order \in KeyOrders(keys) : TRUE

\* The results for the ledger, the map visited in one fixed order
Expected(q) ==
    LET items == in_order(ledger, AnOrder(DOMAIN ledger)) IN
    CASE q = "in_order" -> items
      [] q = "yearly_income_loss_report" ->
            yearly_income_loss_report(items, AnOrder(DOMAIN total_report(items)))
      [] q = "csv_line_iter" -> csv_line_iter(items, transactions)

C18_ReadsIdempotent ==
    [][/\ \A q \in Reads :
            /\ returned[q] # None => returned'[q] = returned[q]
            /\ returned'[q] # None => returned'[q] = Some(Expected(q))
       /\ ledger' = ledger
       /\ transactions' = transactions]_vars

\* Every read was called twice, on a ledger of several queues and several items
C18_Witness ==
    /\ pc = "read"
    /\ \A q \in Reads : calls[q] = 2 /\ returned[q] # None
    /\ Cardinality(DOMAIN ledger) >= 2
    /\ Len(Unwrap(returned["in_order"])) >= 3
    /\ Len(Unwrap(returned["yearly_income_loss_report"])) = 2

(* C19: in_order() returns every item of every queue exactly once, in      *)
(* non-decreasing order of ordinal.                                        *)

Count(q, v) == Cardinality({k \in 1 .. Len(q) : q[k] = v})

AllItems == {ItemAt(pos) : pos \in Positions}

\* How many times the item occurs in the queues of the ledger
Held(v) == SumSeq([k \in 1 .. Len(AnOrder(DOMAIN ledger)) |->
                        Count(ledger[AnOrder(DOMAIN ledger)[k]], v)])

C19_InOrderComplete ==
    returned["in_order"] # None =>
        LET items == Unwrap(returned["in_order"]) IN
            /\ \A k \in 1 .. (Len(items) - 1) : items[k].ordinal <= items[k + 1].ordinal
            /\ Len(items) = Cardinality(Positions)
            /\ \A k \in 1 .. Len(items) : items[k] \in AllItems
            /\ \A v \in AllItems : Count(items, v) = Held(v)

\* Items of three transactions in two queues, which no visit of the map
\* yields in the order of their ordinals
C19_Witness ==
    /\ returned["in_order"] # None
    /\ Cardinality(DOMAIN ledger) >= 2
    /\ Len(Unwrap(returned["in_order"])) >= 3
    /\ \A order \in KeyOrders(DOMAIN ledger) :
            flat_map(ledger, order) # Unwrap(returned["in_order"])

\* Two equal fragments of one transaction: both are returned
C19_EqualItemsKept ==
    /\ returned["in_order"] # None
    /\ \E v \in AllItems : Held(v) = 2

(* C20: yearly_income_loss_report() has exactly one entry for every year   *)
(* an item of the ledger is dated in, also when the year's totals are all  *)
(* zero, none for another year, in strictly ascending order of year.       *)

ItemYears == {Year(ItemAt(pos).date) : pos \in Positions}

C20_YearlyBuckets ==
    returned["yearly_income_loss_report"] # None =>
        LET report == Unwrap(returned["yearly_income_loss_report"]) IN
            /\ {report[k].year : k \in 1 .. Len(report)} = ItemYears
            /\ \A k \in 1 .. (Len(report) - 1) : report[k].year < report[k + 1].year

\* Two years, the first with nothing but a purchase: its entry is all zero
C20_Witness ==
    /\ returned["yearly_income_loss_report"] # None
    /\ Len(Unwrap(returned["yearly_income_loss_report"])) = 2
    /\ Unwrap(returned["yearly_income_loss_report"])[1] =
            [year |-> 1, income |-> 0, expense |-> 0, profit |-> 0]
    /\ Unwrap(returned["yearly_income_loss_report"])[2].profit # 0

(* C21: in the lines of csv_line_iter(), the income_amount, expense_amount *)
(* and profit of an item are all absent when the item's transaction does   *)
(* not exchange an asset for fiat.                                         *)

ExchangesForFiat(tx) == is_fiat(tx.output_type)

Unvalued(line) == line.income_amount = None /\ line.expense_amount = None /\ line.profit = None

\* The lines the last call of csv_line_iter() returned, none before the first call
CsvLines ==
    IF returned["csv_line_iter"] = None THEN <<>> ELSE Unwrap(returned["csv_line_iter"]).lines

TxOfLine(line) == transactions[line.ordinal]

C21_ZeroCostLine ==
    /\ Len(CsvLines) >= 1
    /\ TxOfLine(CsvLines[1]).tx_type = "Interest"
    /\ CsvLines[1].income_amount # None
    /\ CsvLines[1].profit # None

\* The line of a Transfer within one asset: the amount lost is an expense
C21_TransferLine ==
    \E k \in 1 .. Len(CsvLines) :
        /\ SameAssetTransfer(TxOfLine(CsvLines[k]))
        /\ CsvLines[k].expense_amount # None
        /\ Unwrap(CsvLines[k].expense_amount) > 0

(* C22: context_validation returns Ok only if the ordinals of the          *)
(* transactions are 1, 2, ..., n in the order of the list; otherwise it    *)
(* returns the ordinal error of the first transaction whose ordinal is not *)
(* the ordinal before it plus one, and no state.                           *)

Validated == IF returned["context_validation"] = None THEN None
             ELSE Some(Unwrap(returned["context_validation"]))

Sequential(txs) == \A k \in 1 .. Len(txs) : txs[k].ordinal = k

\* The first transaction whose ordinal is not the ordinal before it plus one
FirstOutOfSequence(txs) ==
    CHOOSE k \in 1 .. Len(txs) :
        /\ txs[k].ordinal # (IF k = 1 THEN 0 ELSE txs[k - 1].ordinal) + 1
        /\ \A j \in 1 .. (k - 1) : txs[j].ordinal = j

\* The transaction the error is about: the list up to it is rejected, the list before it is not
RejectedAt(txs) ==
    CHOOSE k \in 1 .. Len(txs) :
        /\ context_validation(SubSeq(txs, 1, k)).err # ""
        /\ context_validation(SubSeq(txs, 1, k - 1)).err = ""

OrdinalMismatch == "Ordinal number mismatch"

C22_OrdinalValidation ==
    Validated # None =>
        LET result == Unwrap(Validated) IN
            /\ result.err = "" => Sequential(given)
            /\ ~Sequential(given) =>
                    /\ result.err = OrdinalMismatch
                    /\ RejectedAt(given) = FirstOutOfSequence(given)
                    /\ result.state = None

(* C22 as amended: the same, where the error is the ordinal error of that  *)
(* transaction when every transaction before it passes the other checks;   *)
(* when an earlier transaction fails its date, amount, balance or type     *)
(* check, the error returned is the error of that earlier transaction.     *)

C22_OrdinalValidationOfFirstRejected ==
    Validated # None =>
        LET result == Unwrap(Validated) IN
            /\ result.err = "" => Sequential(given)
            /\ ~Sequential(given) =>
                    LET k == FirstOutOfSequence(given)
                        earlier == context_validation(SubSeq(given, 1, k - 1))
                    IN /\ result.state = None
                       /\ IF earlier.err = ""
                          THEN result.err = OrdinalMismatch /\ RejectedAt(given) = k
                          ELSE /\ result.err = earlier.err
                               /\ result.err # OrdinalMismatch
                               /\ RejectedAt(given) < k

\* Two valid transactions, then one with the ordinal 4: the ordinal error of the third
C22_Witness ==
    /\ Validated # None
    /\ Len(given) = 3
    /\ given[1].ordinal = 1
    /\ given[2].ordinal = 2
    /\ given[3].ordinal = 4
    /\ context_validation(SubSeq(given, 1, 2)).err = ""
    /\ Unwrap(Validated).err = OrdinalMismatch
    /\ Unwrap(Validated).state = None

\* A list with the ordinals 1, 2, 3 that is accepted, with its final balances
C22_Accepted ==
    /\ Validated # None
    /\ Len(given) = 3
    /\ Unwrap(Validated).err = ""
    /\ Unwrap(Validated).state # None

(* C23: context_validation subtracts every crypto input amount from the    *)
(* running balance of its asset and rejects the list when the balance      *)
(* would become negative beyond a small tolerance; a balance that is       *)
(* negative within the tolerance is accepted.                              *)

\* The tolerance, in units of the last digit kept
Tolerance == 1

NegativeBalance == "Negative balance"

\* The balance of the asset the rejected transaction takes its input from,
\* as it would be after the transaction
BalanceAfterRejected(txs) ==
    LET k == RejectedAt(txs)
    IN context_validation(SubSeq(txs, 1, k - 1)).state[txs[k].input_type] - txs[k].input_amount

C23_BalanceTolerance ==
    Validated # None /\ Unwrap(Validated).err = NegativeBalance =>
        BalanceAfterRejected(given) < 0 - Tolerance

\* A purchase of 1 X and a sale of 1.001 X: the balance of -0.001 is rejected
C23_SlightlyNegativeRejected ==
    /\ Validated # None
    /\ Len(given) = 2
    /\ Unwrap(Validated).err = NegativeBalance
    /\ BalanceAfterRejected(given) = 0 - Tolerance

\* A sale of all that was bought: the balance of zero is accepted
C23_ExactBalanceAccepted ==
    /\ Validated # None
    /\ Len(given) = 2
    /\ given[2].input_amount = given[1].output_amount
    /\ ~is_fiat(given[2].input_type)
    /\ Unwrap(Validated).err = ""
    /\ Unwrap(Unwrap(Validated).state)[given[2].input_type] = 0

(* C24: TransactionsProvider::get returns the transactions of all the      *)
(* entries of the parser, each as often as the entries hold it, ordered by *)
(* date, transactions of one date in the order the parser yielded them,    *)
(* with the ordinals 1, 2, ..., n in the order returned; when an entry is  *)
(* an error, get returns the first such error and no transaction.          *)

Got == Unwrap(returned["get"])

RECURSIVE Flatten(_)
Flatten(iter) ==
    IF iter = <<>> THEN <<>> ELSE Unwrap(Head(iter).value) \o Flatten(Tail(iter))

\* The transactions of a date in the order yielded, date after date
RECURSIVE ByDate(_, _)
ByDate(txs, d) ==
    IF d = 0 THEN <<>>
    ELSE ByDate(txs, d - 1) \o SelectSeq(txs, LAMBDA tx : tx.date = d)

Unnumbered(txs) == [k \in 1 .. Len(txs) |-> [txs[k] EXCEPT !.ordinal = 0]]

FirstError(iter) == iter[CHOOSE k \in 1 .. Len(iter) :
                            iter[k].err # "" /\ \A j \in 1 .. (k - 1) : iter[j].err = ""].err

C24_ProviderGet ==
    returned["get"] # None =>
        IF \E k \in 1 .. Len(entries) : entries[k].err # ""
        THEN Got.err = FirstError(entries) /\ Got.value = None
        ELSE /\ Got.err = ""
             /\ LET txs == Unwrap(Got.value) IN
                    /\ \A k \in 1 .. (Len(txs) - 1) : txs[k].date <= txs[k + 1].date
                    /\ \A k \in 1 .. Len(txs) : txs[k].ordinal = k
                    /\ Unnumbered(txs) = Unnumbered(ByDate(Flatten(entries), MaxDate))
                    /\ \A tx \in {txs[k] : k \in 1 .. Len(txs)} :
                            Count(Unnumbered(txs), [tx EXCEPT !.ordinal = 0]) =
                                Count(Unnumbered(Flatten(entries)), [tx EXCEPT !.ordinal = 0])

\* Two sheets out of order: the second sheet is of day 1, the first holds an
\* X and a Y of day 2, returned after it with the X still before the Y
C24_Witness ==
    /\ returned["get"] # None
    /\ Len(entries) = 2
    /\ Got.err = ""
    /\ Len(Unwrap(Got.value)) = 3
    /\ Flatten(entries)[1].date = 2 /\ Flatten(entries)[1].output_type = "X"
    /\ Flatten(entries)[2].date = 2 /\ Flatten(entries)[2].output_type = "Y"
    /\ Flatten(entries)[3].date = 1
    /\ Unwrap(Got.value)[1].date = 1
    /\ Unwrap(Got.value)[2].output_type = "X"
    /\ Unwrap(Got.value)[3].output_type = "Y"
    /\ Unwrap(Got.value)[1].ordinal = 1
    /\ Flatten(entries)[3].ordinal = 1

\* Two entries that are errors: the error of the first is returned
C24_FirstErrorReturned ==
    /\ returned["get"] # None
    /\ Len(entries) = 2
    /\ entries[1].err # ""
    /\ entries[2].err # ""
    /\ entries[1].err # entries[2].err
    /\ Got = Err(entries[1].err)

(* C25: from one processed transaction to the next, the remaining_amount   *)
(* of no item of the ledger increases, and an item whose remaining_amount  *)
(* is 0 keeps it at 0.                                                     *)

C25_MonotoneConsumption ==
    [][status' = "ok" =>
        \A a \in DOMAIN ledger : \A k \in 1 .. Len(ledger[a]) :
            /\ ledger'[a][k].remaining_amount <= ledger[a][k].remaining_amount
            /\ ledger[a][k].remaining_amount = 0 => ledger'[a][k].remaining_amount = 0]_vars

\* A Transfer within one asset that puts out more than it takes in: the
\* lot it meets has more left than before
C25_LotGrown ==
    /\ Processed
    /\ SameAssetTransfer(LastTx)
    /\ LastTx.output_amount > LastTx.input_amount
    /\ \E k \in 1 .. Len(before[LastTx.input_type]) :
            ledger[LastTx.input_type][k].remaining_amount >
                before[LastTx.input_type][k].remaining_amount

GrowingTransfer(tx) == SameAssetTransfer(tx) /\ tx.output_amount > tx.input_amount

\* The same holds of every transaction but such a Transfer
C25_MonotoneButGrowingTransfer ==
    [][status' = "ok" /\ ~GrowingTransfer(LastTx') =>
        \A a \in DOMAIN ledger : \A k \in 1 .. Len(ledger[a]) :
            /\ ledger'[a][k].remaining_amount <= ledger[a][k].remaining_amount
            /\ ledger[a][k].remaining_amount = 0 => ledger'[a][k].remaining_amount = 0]_vars

(* C26: a Buying or Invoice with output_amount # 0 adds exactly one item,  *)
(* at the end of the queue of the output asset, with remaining_amount =    *)
(* output_amount, cost_basis = input_amount / output_amount,               *)
(* acquisition_date = date, no parent, is_zero_cost false and no           *)
(* sale_price; every item there was, the lots of the input asset           *)
(* included, is unchanged.                                                 *)

\* The ledger l2 is the ledger l with the item added to the queue of asset a
OneItemAdded(l, l2, a, item) ==
    /\ DOMAIN l2 = DOMAIN l \cup {a}
    /\ l2[a] = Append(IF a \in DOMAIN l THEN l[a] ELSE <<>>, item)
    /\ \A b \in DOMAIN l \ {a} : l2[b] = l[b]

Acquired(tx) ==
    [ordinal |-> tx.ordinal, date |-> tx.date, acquisition_date |-> tx.date,
     input_type |-> tx.input_type, input_amount |-> tx.input_amount,
     output_type |-> tx.output_type, output_amount |-> tx.output_amount,
     remaining_amount |-> tx.output_amount,
     cost_basis |-> RoundDiv(tx.input_amount * One, tx.output_amount),
     sale_price |-> None, parent_tx |-> None, is_zero_cost |-> FALSE]

C26_Acquisition ==
    [][Handled'.tx_type \in BuyingTypes /\ Handled'.output_amount # 0 =>
        /\ status' = "ok"
        /\ OneItemAdded(ledger, ledger', Handled'.output_type, Acquired(Handled'))]_vars

\* An Invoice paid with X while a lot of X is open: the lot of X is as it was
C26_Witness ==
    /\ Processed
    /\ LastTx.tx_type = "Invoice"
    /\ LastTx.input_type = "X"
    /\ "X" \in DOMAIN before
    /\ Remaining(before["X"]) > 0
    /\ ledger["X"] = before["X"]
    /\ Len(QueueBefore(LastTx.output_type)) >= 1
    /\ Len(NewItems) = 1

\* A Buying at a rate other than 1
C26_RateWitness ==
    /\ Processed
    /\ LastTx.tx_type = "Buying"
    /\ NewItems[1].cost_basis = One \div 2

(* C27: an Interest or Airdrop whose asset has a price on its date adds    *)
(* exactly one item, at the end of the queue of the output asset, with     *)
(* input asset EUR and input_amount 0 whatever the transaction's input,    *)
(* remaining_amount = output_amount, cost_basis = that price,              *)
(* is_zero_cost true and no parent; every item there was is unchanged.     *)

Received(tx) ==
    [ordinal |-> tx.ordinal, date |-> tx.date, acquisition_date |-> tx.date,
     input_type |-> "EUR", input_amount |-> 0,
     output_type |-> tx.output_type, output_amount |-> tx.output_amount,
     remaining_amount |-> tx.output_amount,
     cost_basis |-> prices[<<tx.output_type, tx.date>>],
     sale_price |-> None, parent_tx |-> None, is_zero_cost |-> TRUE]

C27_ZeroCostAcquisition ==
    [][(/\ Handled'.tx_type \in InterestTypes
        /\ <<Handled'.output_type, Handled'.date>> \in DOMAIN prices) =>
            /\ status' = "ok"
            /\ OneItemAdded(ledger, ledger', Handled'.output_type, Received(Handled'))]_vars

\* An Airdrop with an input of 1 X while a lot of X is open
C27_Witness ==
    /\ Processed
    /\ LastTx.tx_type = "Airdrop"
    /\ LastTx.input_type = "X"
    /\ LastTx.input_amount > 0
    /\ "X" \in DOMAIN before
    /\ Remaining(before["X"]) > 0
    /\ ledger["X"] = before["X"]
    /\ Len(QueueBefore(LastTx.output_type)) >= 1
    /\ NewItems[1].input_type = "EUR"
    /\ NewItems[1].input_amount = 0

(* C28: an item of the ledger has is_zero_cost = true if and only if an    *)
(* Interest or Airdrop created it, or it is a fragment and the chain of    *)
(* the lots consumed, from lot to lot, ends in an item an Interest or      *)
(* Airdrop created.                                                        *)

\* The item the chain of consumed lots ends in: the item itself when it consumed none
RECURSIVE Root(_)
Root(pos) == IF IsFragment(pos) THEN Root(LotOf(pos)) ELSE pos

CreatedByInterest(pos) ==
    /\ ~IsFragment(pos)
    /\ transactions[ItemAt(pos).ordinal].tx_type \in InterestTypes

C28_ZeroCostProvenance ==
    \A pos \in Positions : ItemAt(pos).is_zero_cost <=> CreatedByInterest(Root(pos))

\* A zero-cost fragment two disposals away from the Interest or Airdrop
C28_Witness ==
    /\ Processed
    /\ \E pos \in Positions :
        /\ IsFragment(pos)
        /\ IsFragment(LotOf(pos))
        /\ ItemAt(pos).is_zero_cost
        /\ CreatedByInterest(Root(pos))

\* A fragment of a purchase and the item of an Interest in one ledger
C28_BothKinds ==
    /\ Processed
    /\ \E pos \in Positions : IsFragment(pos) /\ ~ItemAt(pos).is_zero_cost
    /\ \E pos \in Positions : ~IsFragment(pos) /\ ItemAt(pos).is_zero_cost

(* C29: a fragment of a disposal whose output asset is fiat has the        *)
(* cost_basis of the lot it consumed, whatever the rate of the sale, and   *)
(* sale_price = output_amount / input_amount of the transaction; a         *)
(* fragment of a disposal whose output asset is not fiat has no            *)
(* sale_price.                                                             *)

Fragments == {pos \in Positions : IsFragment(pos)}

\* The fragment is what a disposal tx into fiat makes of the lot
SoldFragment(pos, tx) ==
    /\ ItemAt(pos).cost_basis = ItemAt(LotOf(pos)).cost_basis
    /\ ItemAt(pos).sale_price = Some(RoundDiv(tx.output_amount * One, tx.input_amount))

C29_FiatDisposalKeepsBasis ==
    \A pos \in Fragments :
        LET tx == transactions[ItemAt(pos).ordinal]
        IN IF is_fiat(tx.output_type) THEN SoldFragment(pos, tx)
           ELSE ItemAt(pos).sale_price = None

(* C29 as amended: the same, where a Transfer or Bridge within one asset   *)
(* counts as the disposal into fiat it is processed as: its fragments have *)
(* the cost_basis of the lot consumed and the sale_price 0.                *)

C29_FiatDisposalKeepsBasisAsProcessed ==
    \A pos \in Fragments :
        LET tx == transactions[ItemAt(pos).ordinal]
        IN CASE SameAssetTransfer(tx) ->
                    /\ ItemAt(pos).cost_basis = ItemAt(LotOf(pos)).cost_basis
                    /\ ItemAt(pos).sale_price = Some(0)
             [] ~SameAssetTransfer(tx) /\ is_fiat(tx.output_type) -> SoldFragment(pos, tx)
             [] OTHER -> ItemAt(pos).sale_price = None

\* A sale at a rate of 2 of a lot whose cost_basis is 1/2, and a swap of
\* crypto for crypto whose fragment has no sale_price
C29_Witness ==
    /\ Processed
    /\ \E pos \in Fragments :
        /\ transactions[ItemAt(pos).ordinal].tx_type = "Selling"
        /\ ItemAt(pos).sale_price = Some(2 * One)
        /\ ItemAt(pos).cost_basis = One \div 2
    /\ \E pos \in Fragments :
        /\ transactions[ItemAt(pos).ordinal].tx_type = "Swap"
        /\ ItemAt(pos).sale_price = None

\* The fragment of a Transfer of X to X: a sale_price, though no fiat is put out
C29_TransferFragment ==
    /\ Processed
    /\ \E pos \in Fragments :
        /\ SameAssetTransfer(transactions[ItemAt(pos).ordinal])
        /\ ItemAt(pos).sale_price = Some(0)

(* C30: on a list of transactions with the ordinals 1, 2, ..., n,          *)
(* csv_line_iter() yields one line for every item of in_order(), in that   *)
(* order; the transaction at index ordinal - 1 has the ordinal of the      *)
(* item, so neither the lookup nor the assertion 'Ordinal mismatch'        *)
(* fails; a line has the action and the asset types of that transaction    *)
(* and the dates and amounts of the item.                                  *)

C30_LineJoin ==
    returned["csv_line_iter"] # None /\ Sequential(transactions) =>
        LET result == Unwrap(returned["csv_line_iter"])
            items == Unwrap(cell)
        IN /\ result.panic = ""
           /\ Len(result.lines) = Len(items)
           /\ Len(items) = Cardinality(Positions)
           /\ \A k \in 1 .. (Len(items) - 1) : items[k].ordinal <= items[k + 1].ordinal
           /\ \A k \in 1 .. Len(items) :
                LET item == items[k]
                    line == result.lines[k]
                IN /\ item \in AllItems
                   /\ item.ordinal \in 1 .. Len(transactions)
                   /\ transactions[item.ordinal].ordinal = item.ordinal
                   /\ line.ordinal = item.ordinal
                   /\ line.action = transactions[item.ordinal].tx_type
                   /\ line.input_type = transactions[item.ordinal].input_type
                   /\ line.output_type = transactions[item.ordinal].output_type
                   /\ line.transaction_date = item.date
                   /\ line.acquisition_date = item.acquisition_date
                   /\ line.input_amount = item.input_amount
                   /\ line.output_amount = item.output_amount

\* Two purchases and a sale that takes both lots: four lines, two of them
\* for the two fragments of the sale, each with the amounts of its fragment
C30_Witness ==
    /\ returned["csv_line_iter"] # None
    /\ Len(CsvLines) = 4
    /\ CsvLines[3].ordinal = 3
    /\ CsvLines[4].ordinal = 3
    /\ CsvLines[3].action = "Selling"
    /\ CsvLines[3].input_amount < transactions[3].input_amount
    /\ CsvLines[4].input_amount < transactions[3].input_amount

\* The line of the fragment of a Transfer of X to X: the output asset is the
\* transaction's X, not the EUR of the fragment
C30_TransferLabels ==
    /\ returned["csv_line_iter"] # None
    /\ \E k \in 1 .. Len(CsvLines) :
        /\ CsvLines[k].action = "Transfer"
        /\ CsvLines[k].output_type = "X"
        /\ Unwrap(cell)[k].output_type = "EUR"

----------------------------------------------------------------------------
(* C31: when context_validation returns Ok, the state returned maps each   *)
(* crypto asset that occurred as an output to the sum of its output        *)
(* amounts less the sum of its input amounts over the whole list, every    *)
(* balance, after each transaction and at the end, is at least zero, and   *)
(* no fiat asset is a key of the state.                                    *)

\* What the transactions of txs add to and take from asset a
RECURSIVE NetFlow(_, _)
NetFlow(txs, a) ==
    IF txs = <<>> THEN 0
    ELSE NetFlow(SubSeq(txs, 1, Len(txs) - 1), a)
            + (IF txs[Len(txs)].output_type = a THEN txs[Len(txs)].output_amount ELSE 0)
            - (IF txs[Len(txs)].input_type = a THEN txs[Len(txs)].input_amount ELSE 0)

OutputAssets(txs) == {txs[k].output_type : k \in 1 .. Len(txs)}

Accepted == Validated # None /\ Unwrap(Validated).err = ""

FinalState == Unwrap(Unwrap(Validated).state)

C31_ValidationResult ==
    Accepted =>
        /\ DOMAIN FinalState = {a \in OutputAssets(given) : is_crypto(a)}
        /\ \A a \in DOMAIN FinalState : FinalState[a] = NetFlow(given, a)
        /\ \A k \in 0 .. Len(given) : \A a \in DOMAIN FinalState :
                NetFlow(SubSeq(given, 1, k), a) >= 0
        /\ \A a \in DOMAIN FinalState : ~is_fiat(a)

\* A purchase with a negative output amount is accepted and leaves a balance below zero
C31_NegativeBalanceAccepted ==
    /\ Accepted
    /\ Len(given) = 1
    /\ given[1].output_amount < 0
    /\ FinalState[given[1].output_type] < 0

\* The same holds of every accepted list whose output amounts are not negative
C31_ValidationResultOfPositiveOutputs ==
    (\A k \in 1 .. Len(given) : given[k].output_amount >= 0) => C31_ValidationResult

\* A purchase, a swap of it into a second asset: two keys, one balance at zero
C31_TwoAssets ==
    /\ Accepted
    /\ Len(given) = 3
    /\ DOMAIN FinalState = {"X", "Y"}
    /\ FinalState["X"] = One
    /\ FinalState["Y"] = One

----------------------------------------------------------------------------
(* C32: a transaction with input_amount = 0, an Interest for one, is       *)
(* accepted by the pipeline: context_validation does not reject it, and    *)
(* the ledger makes its lot of it without consuming any inventory.         *)

ZeroInput == "Input amount is zero"

\* The pipeline went on to the ledger with a list that has a zero input
ZeroInputProcessed ==
    /\ pc \in {"report", "csv", "exit"}
    /\ status = "ok"
    /\ transactions = given
    /\ \E k \in 1 .. Len(given) : given[k].input_amount = 0

C32_ZeroInputAccepted ==
    /\ returned["main"] # None => Unwrap(returned["main"]).error # ZeroInput
    /\ \A k \in 1 .. Len(given) :
            (/\ pc \notin {"parse", "validate"}
             /\ given[k].input_amount = 0
             /\ context_validation(SubSeq(given, 1, k - 1)).err = "")
                => context_validation(SubSeq(given, 1, k)).err # ZeroInput

\* An Interest of 1 Y with no input is all there is: main exits with the error, no ledger built
C32_InterestRejected ==
    /\ pc = "exit"
    /\ Len(given) = 1
    /\ given[1].tx_type = "Interest"
    /\ given[1].input_amount = 0
    /\ given[1].output_amount = One
    /\ returned["main"] # None
    /\ Unwrap(returned["main"]).error = ZeroInput
    /\ transactions = <<>>
    /\ ledger = EmptyLedger

\* Handed to the ledger, the same transaction makes its lot and consumes nothing
C32_PureAcquisitionInLedger ==
    [][(/\ Handled'.tx_type \in InterestTypes
        /\ Handled'.input_amount = 0
        /\ <<Handled'.output_type, Handled'.date>> \in DOMAIN prices) =>
            /\ status' = "ok"
            /\ log' = log
            /\ \A a \in DOMAIN ledger : SubSeq(ledger'[a], 1, Len(ledger[a])) = ledger[a]
            /\ Len(NewItems') = 1
            /\ NewItems'[1].remaining_amount = Handled'.output_amount]_vars

----------------------------------------------------------------------------
(* C33: for any list of Buying, Invoice, Interest, Swap and Selling        *)
(* transactions that context_validation accepts, all prices available,     *)
(* the ledger never meets a missing queue of an input asset and never      *)
(* reports a shortfall, and after every transaction the remaining_amount   *)
(* of each crypto asset's queue sums to the balance context_validation     *)
(* computed for that asset up to that transaction.                         *)

ValidatedTypes == {"Buying", "Invoice", "Interest", "Swap", "Selling"}

\* main went past both checks with a list of these types and called Ledger::new
CleanRunCase ==
    /\ pc \in {"report", "csv", "exit"}
    /\ context_validation(given).err = ""
    /\ missing_prices(given) = <<>>
    /\ \A k \in 1 .. Len(given) : given[k].tx_type \in ValidatedTypes

\* The ledger after the first k transactions against the balances after the first k
BalancesAgree(txs, k) ==
    LET r == ledger_new(SubSeq(txs, 1, k))
        v == context_validation(SubSeq(txs, 1, k))
    IN /\ r.panic = ""
       /\ r.log = <<>>
       /\ {a \in DOMAIN r.ledger : is_crypto(a)} = DOMAIN v.state
       /\ \A a \in DOMAIN v.state : Remaining(r.ledger[a]) = v.state[a]

C33_ValidationImpliesCleanRun ==
    CleanRunCase =>
        /\ status = "ok"
        /\ panic = ""
        /\ log = <<>>
        /\ transactions = given
        /\ ledger = ledger_new(given).ledger
        /\ \A k \in 0 .. Len(given) : BalancesAgree(given, k)

\* Two purchases of X and a sale of both: two lots consumed, the balance and the queue at zero
C33_Witness ==
    /\ CleanRunCase
    /\ Len(given) = 3
    /\ given[3].tx_type = "Selling"
    /\ given[3].input_amount = 2 * One
    /\ Len(before["X"]) = 2
    /\ Remaining(before["X"]) = 2 * One
    /\ Remaining(ledger["X"]) = 0
    /\ context_validation(given).state["X"] = 0

\* A purchase of 2 X, a purchase of Y and a swap of 1 X into Y: the lot of X partly consumed
C33_SwapWitness ==
    /\ CleanRunCase
    /\ Len(given) = 3
    /\ given[3].tx_type = "Swap"
    /\ Len(ledger["X"]) = 1
    /\ ledger["X"][1].output_amount = 2 * One
    /\ Len(ledger["Y"]) = 2
    /\ Remaining(ledger["X"]) = One
    /\ Remaining(ledger["Y"]) = 2 * One
    /\ context_validation(given).state = [a \in {"X", "Y"} |-> IF a = "X" THEN One ELSE 2 * One]

----------------------------------------------------------------------------
(* C34: after any sequence of transactions with non-negative amounts,      *)
(* every queue splits at some position k: every item before k has          *)
(* remaining_amount = 0 and every item after k has remaining_amount =      *)
(* output_amount; hence at most one lot of an asset is partially consumed  *)
(* (0 < remaining_amount < output_amount).                                 *)

SplitsAt(q, k) ==
    /\ \A j \in 1 .. (k - 1) : q[j].remaining_amount = 0
    /\ \A j \in (k + 1) .. Len(q) : q[j].remaining_amount = q[j].output_amount

PartlyConsumed(q) ==
    {j \in 1 .. Len(q) : 0 < q[j].remaining_amount /\ q[j].remaining_amount < q[j].output_amount}

C34_QueueShape ==
    \A a \in DOMAIN ledger :
        /\ \E k \in 1 .. (Len(ledger[a]) + 1) : SplitsAt(ledger[a], k)
        /\ Cardinality(PartlyConsumed(ledger[a])) <= 1

\* A lot consumed whole and the next in part: the queue splits at the second lot only
C34_Witness ==
    /\ Processed
    /\ \E a \in DOMAIN ledger :
        /\ Len(ledger[a]) >= 2
        /\ ledger[a][1].output_amount > 0
        /\ ledger[a][1].remaining_amount = 0
        /\ PartlyConsumed(ledger[a]) = {2}
        /\ ~SplitsAt(ledger[a], 1)
        /\ SplitsAt(ledger[a], 2)

\* A lot in part consumed with an untouched lot behind it
C34_OpenLotBehind ==
    /\ Processed
    /\ \E a \in DOMAIN ledger :
        /\ Len(ledger[a]) = 2
        /\ PartlyConsumed(ledger[a]) = {1}
        /\ ledger[a][2].remaining_amount = ledger[a][2].output_amount
        /\ ledger[a][2].output_amount > 0

----------------------------------------------------------------------------
(* C35: for every disposal into fiat with a non-zero input that the        *)
(* inventory satisfies in full, the input_amount of its fragments sums to  *)
(* the transaction's input_amount and the income of its fragments          *)
(* (input_amount * sale_price) sums to the transaction's output_amount.    *)

\* The transactions processed that the claim is about
FiatDisposals ==
    {i \in 1 .. Len(transactions) :
        /\ IsDisposal(transactions[i])
        /\ is_fiat(transactions[i].output_type)
        /\ transactions[i].input_amount # 0
        /\ ~HasShortfall(i)}

FragmentsOf(i) ==
    SelectSeq(ledger[transactions[i].output_type], LAMBDA item : item.ordinal = i)

InputOfFragments(i) == SumSeq([k \in 1 .. Len(FragmentsOf(i)) |-> FragmentsOf(i)[k].input_amount])

IncomeOfFragments(i) ==
    SumSeq([k \in 1 .. Len(FragmentsOf(i)) |-> Unwrap(income(FragmentsOf(i)[k]))])

C35_SaleProceedsConserved ==
    status = "ok" =>
        \A i \in FiatDisposals :
            /\ InputOfFragments(i) = transactions[i].input_amount
            /\ IncomeOfFragments(i) = transactions[i].output_amount

(* What does hold: the input amounts sum to the transaction's              *)
(* input_amount; the incomes sum to the transaction's output_amount when   *)
(* the division output_amount / input_amount that gives the sale_price is  *)
(* exact, and otherwise to within the rounding of that division and of     *)
(* the products: half a unit of the last digit for every unit of input     *)
(* and for every fragment.  The output_amount of the fragments, the last   *)
(* of which takes the rest, sums to the transaction's output_amount.       *)

ExactPrice(tx) == Unwrap(tx_sale_price(tx)) * tx.input_amount = tx.output_amount * One

C35_SaleProceedsConservedUpToRounding ==
    status = "ok" =>
        \A i \in FiatDisposals :
            LET tx == transactions[i]
                off == IncomeOfFragments(i) - tx.output_amount
            IN /\ InputOfFragments(i) = tx.input_amount
               /\ ExactPrice(tx) => off = 0
               /\ 2 * One * Abs(off) <= tx.input_amount + Len(FragmentsOf(i)) * One
               /\ OutputOfOrdinal(i) = tx.output_amount

\* A sale of 2 X for 1 EUR out of two lots of 1 X: two fragments of 0.50 each
C35_Witness ==
    /\ Processed
    /\ Len(transactions) \in FiatDisposals
    /\ LastTx.input_amount = 2 * One
    /\ LastTx.output_amount = One
    /\ Len(FragmentsOf(Len(transactions))) = 2
    /\ InputOfFragments(Len(transactions)) = 2 * One
    /\ IncomeOfFragments(Len(transactions)) = One

\* A sale of 3 X for 1 EUR out of lots of 2 X and 1 X: the incomes sum to less than 1 EUR
C35_RoundedPrice ==
    /\ Processed
    /\ Len(transactions) \in FiatDisposals
    /\ LastTx.input_amount = 3 * One
    /\ LastTx.output_amount = One
    /\ Len(FragmentsOf(Len(transactions))) = 2
    /\ InputOfFragments(Len(transactions)) = 3 * One
    /\ IncomeOfFragments(Len(transactions)) < One
    /\ OutputOfOrdinal(Len(transactions)) = One

----------------------------------------------------------------------------
(* C36: after any sequence of transactions with non-negative amounts,      *)
(* disposals the inventory falls short of included, for each asset A the   *)
(* sum over A's queue of output_amount - remaining_amount equals the sum   *)
(* of input_amount over all fragments created by consuming lots of A.      *)

\* What was taken out of the lots of the queue q
TakenOutOf(q) == SumSeq([k \in 1 .. Len(q) |-> q[k].output_amount - q[k].remaining_amount])

\* The input_amount of the fragments in the queue of b that consumed lots of a
FragmentInputsIn(b, a) ==
    SumSeq([k \in 1 .. Len(ledger[b]) |->
                IF origin[b][k] # 0 /\ ledger[b][k].input_type = a
                THEN ledger[b][k].input_amount ELSE 0])

RECURSIVE FragmentInputs(_, _)
FragmentInputs(queues, a) ==
    IF queues = {} THEN 0
    ELSE LET b == CHOOSE x \in queues : TRUE
         IN FragmentInputsIn(b, a) + FragmentInputs(queues \ {b}, a)

C36_ConsumedBookkeeping ==
    \A a \in Assets :
        FragmentInputs(DOMAIN ledger, a) = (IF a \in DOMAIN ledger THEN TakenOutOf(ledger[a]) ELSE 0)

\* A sale of more than the two lots hold: both are empty, the two
\* fragments carry what was taken, and the shortfall is logged
C36_Witness ==
    /\ Processed
    /\ HasShortfall(Len(transactions))
    /\ LastTx.input_type = "X"
    /\ Len(ledger["X"]) = 2
    /\ TakenOutOf(ledger["X"]) = 2 * One
    /\ TakenOutOf(before["X"]) = 0
    /\ Len(NewItems) = 2
    /\ FragmentInputs(DOMAIN ledger, "X") = 2 * One

\* A lot consumed by two transactions, the second into another asset
C36_TwoConsumers ==
    /\ Processed
    /\ Len(transactions) = 3
    /\ DOMAIN ledger = {"EUR", "X", "Y"}
    /\ Len(ledger["X"]) = 1
    /\ TakenOutOf(ledger["X"]) = 2 * One
    /\ FragmentInputsIn("EUR", "X") = One
    /\ FragmentInputsIn("Y", "X") = One

----------------------------------------------------------------------------
(* C37: the ordinals of the transactions are unique, so all the items of   *)
(* one ordinal are in a single queue; the sequence in_order() returns,     *)
(* and with it the lines of the CSV and the yearly report, is the same     *)
(* in whatever order the map of the queues is visited, and the items of    *)
(* one ordinal are in it in the order in which they were created.          *)

\* The queues that hold an item of the ordinal i
QueuesOf(i) == {a \in DOMAIN ledger : \E k \in 1 .. Len(ledger[a]) : ledger[a][k].ordinal = i}

WithOrdinal(q, i) == SelectSeq(q, LAMBDA item : item.ordinal = i)

UniqueOrdinals ==
    \A j, k \in 1 .. Len(transactions) : transactions[j].ordinal = transactions[k].ordinal => j = k

C37_DeterministicOrderedView ==
    UniqueOrdinals =>
        /\ \A i \in 1 .. Len(transactions) : Cardinality(QueuesOf(i)) <= 1
        /\ \A order \in KeyOrders(DOMAIN ledger) :
            LET items == in_order(ledger, order) IN
                /\ returned["in_order"] # None => Unwrap(returned["in_order"]) = items
                /\ returned["csv_line_iter"] # None =>
                        Unwrap(returned["csv_line_iter"]) = csv_line_iter(items, transactions)
                /\ returned["yearly_income_loss_report"] # None =>
                        \A year_order \in KeyOrders(DOMAIN total_report(items)) :
                            Unwrap(returned["yearly_income_loss_report"])
                                = yearly_income_loss_report(items, year_order)
                /\ \A i \in 1 .. Len(transactions) : \A a \in QueuesOf(i) :
                        WithOrdinal(items, i) = WithOrdinal(ledger[a], i)

\* Two fragments of one sale behind the two lots they consumed, in another
\* queue: the visits of the map yield the items in different orders, none
\* of them sorted, and all three reads were called
C37_Witness ==
    /\ pc = "read"
    /\ UniqueOrdinals
    /\ \A q \in Reads : returned[q] # None
    /\ Cardinality(DOMAIN ledger) = 2
    /\ \E i \in 1 .. Len(transactions) : \E a \in QueuesOf(i) :
            /\ Len(WithOrdinal(ledger[a], i)) = 2
            /\ WithOrdinal(ledger[a], i)[1] # WithOrdinal(ledger[a], i)[2]
    /\ \E o1, o2 \in KeyOrders(DOMAIN ledger) : flat_map(ledger, o1) # flat_map(ledger, o2)
    /\ \E o1 \in KeyOrders(DOMAIN ledger) : flat_map(ledger, o1) # Unwrap(returned["in_order"])

----------------------------------------------------------------------------
(* C39: a disposal whose output asset is not fiat and whose output_amount  *)
(* is 0 aborts the construction of the ledger if and only if the queue of  *)
(* the input asset holds a lot with remaining_amount > 0 and the           *)
(* input_amount is not 0; when no lot is eligible it only reports the      *)
(* shortfall and continues.                                                *)

CannotFail == "Cannot fail, improve later"

\* The disposal process_selling_or_swap is handed has no rate to chain
ZeroOutputCase(tx) == IsDisposal(tx) /\ ZeroOutputSwap(Effective(tx))

Eligible(l, tx) ==
    /\ tx.input_type \in DOMAIN l
    /\ HasOpenLot(l[tx.input_type])
    /\ tx.input_amount # 0

\* Nothing is consumed and nothing created; the whole input is the shortfall
OnlyReported(l, l2, tx) ==
    /\ status' = "ok"
    /\ transactions' = Append(transactions, tx)
    /\ DOMAIN l2 = DOMAIN l \cup {tx.output_type}
    /\ \A a \in DOMAIN l2 : l2[a] = entry_or_default(l, a)
    /\ log' = Append(log, [ordinal |-> tx.ordinal, shortfall |-> tx.input_amount])

C39_ZeroOutputSwapAborts ==
    [][ZeroOutputCase(Handled') =>
        /\ status' = "panicked" <=> Eligible(ledger, Handled')
        /\ ~Eligible(ledger, Handled') => OnlyReported(ledger, ledger', Handled')]_vars

(* C39 as amended: when the input asset has a queue, the disposal aborts   *)
(* the construction if and only if the queue holds a lot with              *)
(* remaining_amount > 0 and the input_amount is not 0, and otherwise it    *)
(* reports the shortfall, if the input_amount is not 0, and continues;     *)
(* when the input asset has no queue, it aborts as every disposal does.    *)

C39_ZeroOutputSwapAbortsGivenQueue ==
    [][ZeroOutputCase(Handled') =>
        IF Handled'.input_type \notin DOMAIN ledger
        THEN Aborted' /\ panic' = AssetNotFound
        ELSE /\ status' = "panicked" <=> Eligible(ledger, Handled')
             /\ Eligible(ledger, Handled') => Aborted' /\ panic' = CannotFail
             /\ ~Eligible(ledger, Handled') =>
                    IF Handled'.input_amount # 0
                    THEN OnlyReported(ledger, ledger', Handled')
                    ELSE /\ status' = "ok"
                         /\ transactions' = Append(transactions, Handled')
                         /\ DOMAIN ledger' = DOMAIN ledger \cup {Handled'.output_type}
                         /\ \A a \in DOMAIN ledger' : ledger'[a] = entry_or_default(ledger, a)
                         /\ log' = log]_vars

\* A swap of 1 X for 0 Y as the third transaction, with a lot of X open: no ledger is left
C39_Witness ==
    /\ Aborted
    /\ panic = CannotFail
    /\ ZeroOutputCase(Unwrap(failed))
    /\ Unwrap(failed).input_amount = One
    /\ Unwrap(failed).ordinal = 3

\* The same swap when the only lot of X is used up: the input is logged as the shortfall
C39_ShortfallOnly ==
    /\ Processed
    /\ ZeroOutputCase(LastTx)
    /\ LastTx.input_amount = One
    /\ Len(before[LastTx.input_type]) = 1
    /\ ~HasOpenLot(before[LastTx.input_type])
    /\ ledger[LastTx.input_type] = before[LastTx.input_type]
    /\ ledger[LastTx.output_type] = <<>>
    /\ log[Len(log)] = [ordinal |-> LastTx.ordinal, shortfall |-> One]

\* The same swap of an asset that has no queue
C39_NoQueue ==
    /\ Aborted
    /\ panic = AssetNotFound
    /\ ZeroOutputCase(Unwrap(failed))
    /\ Unwrap(failed).input_amount = One

\* A swap of 0 X for 0 Y with a lot of X open: processed, nothing logged
C39_ZeroInput ==
    /\ Processed
    /\ ZeroOutputCase(LastTx)
    /\ LastTx.input_amount = 0
    /\ HasOpenLot(before[LastTx.input_type])
    /\ ledger[LastTx.input_type] = before[LastTx.input_type]
    /\ log = <<>>

----------------------------------------------------------------------------
(* C40: a disposal, or a Transfer or Bridge within one asset with input =  *)
(* output, whose effective input amount is 0 and whose input asset has a   *)
(* queue creates no fragment, changes no remaining_amount, reports no      *)
(* shortfall, and its output_amount is attributed to no inventory item.    *)

ZeroInputCase(l, tx) ==
    /\ IsDisposal(tx)
    /\ Effective(tx).input_amount = 0
    /\ tx.input_type \in DOMAIN l

C40_ZeroInputDisposalNoOp ==
    [][ZeroInputCase(ledger, Handled') =>
        /\ status' = "ok"
        /\ transactions' = Append(transactions, Handled')
        /\ log' = log
        /\ DOMAIN ledger' = DOMAIN ledger \cup {Effective(Handled').output_type}
        /\ \A a \in DOMAIN ledger' :
            /\ ledger'[a] = entry_or_default(ledger, a)
            /\ \A k \in 1 .. Len(ledger'[a]) : ledger'[a][k].ordinal # Handled'.ordinal]_vars

\* A sale of 0 X for 1 EUR with a lot of X open: the lot is as it was and
\* no item has the ordinal of the sale
C40_Witness ==
    /\ Processed
    /\ LastTx.tx_type = "Selling"
    /\ LastTx.input_amount = 0
    /\ LastTx.output_amount = One
    /\ HasOpenLot(before[LastTx.input_type])
    /\ ledger[LastTx.input_type] = before[LastTx.input_type]
    /\ ~HasItems(LastTx.ordinal)
    /\ ~HasShortfall(LastTx.ordinal)

\* A Transfer of 1 X into 1 X with a lot of X open
C40_TransferWitness ==
    /\ Processed
    /\ SameAssetTransfer(LastTx)
    /\ LastTx.input_amount = One
    /\ LastTx.output_amount = One
    /\ HasOpenLot(before[LastTx.input_type])
    /\ ledger[LastTx.input_type] = before[LastTx.input_type]
    /\ ~HasItems(LastTx.ordinal)
    /\ log = <<>>

----------------------------------------------------------------------------
(* C38: for every year entry yearly_income_loss_report() produces, after   *)
(* any sequence of transactions, profit = income - expense.                *)

YearEntries == Unwrap(returned["yearly_income_loss_report"])

Reported == returned["yearly_income_loss_report"] # None

C38_YearlyTotalsConsistent ==
    Reported =>
        \A k \in 1 .. Len(YearEntries) :
            YearEntries[k].profit = YearEntries[k].income - YearEntries[k].expense

(* C38 as amended: for every year, the totals its entry is formatted from  *)
(* satisfy profit = income - expense; in the entry itself each of the      *)
(* three amounts is rounded to two decimals, and its profit is within      *)
(* 0.01 of its income - expense.                                           *)

C38_YearlyTotalsConsistentBeforeFormatting ==
    Reported =>
        LET totals == yearly_totals(ledger) IN
            /\ Len(YearEntries) = Cardinality(DOMAIN totals)
            /\ \A k \in 1 .. Len(YearEntries) :
                LET entry == YearEntries[k] IN
                    /\ entry.year \in DOMAIN totals
                    /\ totals[entry.year].profit
                            = totals[entry.year].income - totals[entry.year].expense
                    /\ entry = format_report(totals[entry.year])
                    /\ Abs(entry.profit - (entry.income - entry.expense)) <= 1

\* A year with an Interest and sales, whose totals have no fraction of a cent
C38_Witness ==
    /\ Reported
    /\ \E k \in 1 .. Len(YearEntries) :
        /\ YearEntries[k].income > 0
        /\ YearEntries[k].expense > 0
        /\ YearEntries[k].profit # 0
        /\ YearEntries[k].profit = YearEntries[k].income - YearEntries[k].expense
        /\ \E j \in 1 .. Len(transactions) :
            /\ transactions[j].tx_type \in InterestTypes
            /\ Year(transactions[j].date) = YearEntries[k].year

\* An Interest of 1 Y at 4.005 and its sale for 1 EUR in one year: income
\* 9.010, expense 4.005 and profit 5.005 are shown as 9.01, 4.01 and 5.01
C38_RoundedEntry ==
    /\ Reported
    /\ \E k \in 1 .. Len(YearEntries) :
        /\ YearEntries[k].income = 901
        /\ YearEntries[k].expense = 401
        /\ YearEntries[k].profit = 501
        /\ yearly_totals(ledger)[YearEntries[k].year].profit = 5 * One + 5 * (One \div 1000)

====
